---- MODULE Spec2Model ----
(***************************************************************************)
(* A model of the tool-call handler of server.js (the autonomous developer *)
(* MCP server): the request handler, smart_replace with its match modes    *)
(* and strategy chain, apply_code_patch with its fallback, search_in_file, *)
(* replace_text and delete_lines.                                          *)
(*                                                                         *)
(* Texts are sequences of one-character strings, so that the JavaScript    *)
(* string operations of the source (includes, indexOf, replace, split,     *)
(* trim, the \s regular expressions) are computed character by character.  *)
(* Offsets are 0-based, as in the source; -1 is "not found".               *)
(***************************************************************************)
EXTENDS Integers, Sequences, FiniteSets, TLC

(***************************************************************************)
(* JavaScript string primitives used by server.js                          *)
(***************************************************************************)

\* The characters /\s/ and String.prototype.trim treat as whitespace
\* (those of them that occur in the model's texts).
WS == {" ", "\t", "\n", "\r"}

IsWs(c) == c \in WS

Min(S) == CHOOSE x \in S : \A y \in S : x <= y

\* s.substring(a, b) for 0 <= a <= b <= s.length
Substring(s, a, b) == SubSeq(s, a + 1, b)

\* s.substring(a)
SubstringFrom(s, a) == SubSeq(s, a + 1, Len(s))

\* s.startsWith(prefix)
StartsWith(s, prefix) ==
    /\ Len(prefix) <= Len(s)
    /\ SubSeq(s, 1, Len(prefix)) = prefix

\* The offsets at which needle occurs in hay.
Occurrences(hay, needle) ==
    {k \in 0..(Len(hay) - Len(needle)) : Substring(hay, k, k + Len(needle)) = needle}

\* hay.indexOf(needle)
IndexOf(hay, needle) ==
    IF Occurrences(hay, needle) = {} THEN -1 ELSE Min(Occurrences(hay, needle))

\* hay.includes(needle)
Includes(hay, needle) == Occurrences(hay, needle) # {}

\* The replacement text String.prototype.replace(string, string) inserts:
\* GetSubstitution with no captures. "$$" is "$", "$&" the matched text,
\* "$" followed by a backtick (the character BACKTICK here) the text before the match, "$'" the text after it; any other "$"
\* stands for itself.
RECURSIVE GetSubstitution(_, _, _, _)
GetSubstitution(matched, str, position, replacement) ==
    IF replacement = <<>> THEN <<>>
    ELSE IF Head(replacement) = "$" /\ Len(replacement) >= 2
              /\ replacement[2] \in {"$", "&", "BACKTICK", "'"}
         THEN (CASE replacement[2] = "$" -> <<"$">>
                 [] replacement[2] = "&" -> matched
                 [] replacement[2] = "BACKTICK" -> Substring(str, 0, position)
                 [] OTHER -> SubstringFrom(str, position + Len(matched)))
              \o GetSubstitution(matched, str, position, SubSeq(replacement, 3, Len(replacement)))
         ELSE <<Head(replacement)>>
              \o GetSubstitution(matched, str, position, Tail(replacement))

\* str.replace(searchValue, replaceValue) with both arguments strings: the
\* first occurrence only, the replacement text expanded by GetSubstitution.
StringReplace(str, searchValue, replaceValue) ==
    LET pos == IndexOf(str, searchValue) IN
    IF pos = -1 THEN str
    ELSE Substring(str, 0, pos)
         \o GetSubstitution(searchValue, str, pos, replaceValue)
         \o SubstringFrom(str, pos + Len(searchValue))

\* s.trimStart()
RECURSIVE TrimStart(_)
TrimStart(s) ==
    IF s # <<>> /\ IsWs(Head(s)) THEN TrimStart(Tail(s)) ELSE s

\* s.trimEnd()
RECURSIVE TrimEnd(_)
TrimEnd(s) ==
    IF s # <<>> /\ IsWs(s[Len(s)]) THEN TrimEnd(SubSeq(s, 1, Len(s) - 1)) ELSE s

\* s.trim()
Trim(s) == TrimEnd(TrimStart(s))

\* line.match(/^(\s*)/)[1]: the longest leading run of whitespace
LeadingWs(s) == SubSeq(s, 1, Len(s) - Len(TrimStart(s)))

\* s.replace(/\s+/g, ' '): every run of whitespace becomes one space
RECURSIVE CollapseWs(_)
CollapseWs(s) ==
    IF s = <<>> THEN <<>>
    ELSE IF IsWs(Head(s))
         THEN <<" ">> \o CollapseWs(TrimStart(s))
         ELSE <<Head(s)>> \o CollapseWs(Tail(s))

\* A split that drops an empty last piece
RECURSIVE SplitDroppingLast(_, _)
SplitDroppingLast(s, sep) ==
    LET at == {k \in 1..Len(s) : s[k] = sep} IN
    IF at = {} THEN (IF s = <<>> THEN <<>> ELSE <<s>>)
    ELSE <<SubSeq(s, 1, Min(at) - 1)>>
         \o SplitDroppingLast(SubSeq(s, Min(at) + 1, Len(s)), sep)

\* s.split(sep) for a one-character separator: the empty text gives one
\* empty piece, and empty trailing pieces are kept.
RECURSIVE Split(_, _)
Split(s, sep) ==
    LET at == {k \in 1..Len(s) : s[k] = sep} IN
    IF at = {} THEN <<s>>
    ELSE <<SubSeq(s, 1, Min(at) - 1)>> \o Split(SubSeq(s, Min(at) + 1, Len(s)), sep)

\* pieces.join(sep)
RECURSIVE Join(_, _)
Join(pieces, sep) ==
    IF pieces = <<>> THEN <<>>
    ELSE IF Len(pieces) = 1 THEN pieces[1]
    ELSE pieces[1] \o <<sep>> \o Join(Tail(pieces), sep)

\* s.split(/\s+/): the pieces between runs of whitespace; a text that starts
\* (ends) with whitespace has an empty first (last) piece.
RECURSIVE SplitWs(_)
SplitWs(s) ==
    LET at == {k \in 1..Len(s) : IsWs(s[k])} IN
    IF at = {} THEN <<s>>
    ELSE <<SubSeq(s, 1, Min(at) - 1)>> \o SplitWs(TrimStart(SubSeq(s, Min(at), Len(s))))

\* array.includes(x)
ArrayIncludes(arr, x) == \E k \in 1..Len(arr) : arr[k] = x

(***************************************************************************)
(* JavaScript values of smartReplace's matchFound: false, true or a string *)
(***************************************************************************)

JsFalse == [tag |-> "false", text |-> <<>>]
JsTrue == [tag |-> "true", text |-> <<>>]
JsString(s) == [tag |-> "string", text |-> s]

\* if (v), and !v negated: the empty string is falsy like false
Truthy(v) == v.tag = "true" \/ (v.tag = "string" /\ v.text # <<>>)

\* A variable that was declared and never assigned
Undefined == <<"undefined">>

(***************************************************************************)
(* smartReplace, fuzzy mode: the two loops that map the normalized offset  *)
(* back to the original text                                               *)
(***************************************************************************)

\* The condition under which both loops count a character of content
\* (0-based offset i, the span starting at from).
FuzzyCounts(content, i, from) ==
    \/ ~IsWs(content[i + 1])
    \/ (i > from /\ IsWs(content[i]))

\* for (let i = 0; i < content.length; i++) { if (normalizedIndex === index)
\* { start = i; break; } ... }: start stays 0 when the loop ends unbroken.
RECURSIVE FuzzyStart(_, _, _, _)
FuzzyStart(content, index, i, normalizedIndex) ==
    IF i >= Len(content) THEN 0
    ELSE IF normalizedIndex = index THEN i
    ELSE FuzzyStart(content, index, i + 1,
                    IF FuzzyCounts(content, i, 0) THEN normalizedIndex + 1
                    ELSE normalizedIndex)

\* while (oldIndex < normalizedOld.length && end < content.length) ...
RECURSIVE FuzzyEnd(_, _, _, _, _)
FuzzyEnd(content, start, normalizedOldLength, end, oldIndex) ==
    IF ~(oldIndex < normalizedOldLength /\ end < Len(content)) THEN end
    ELSE FuzzyEnd(content, start, normalizedOldLength, end + 1,
                  IF FuzzyCounts(content, end, start) THEN oldIndex + 1
                  ELSE oldIndex)

\* The fuzzy branch of smartReplace: [matchFound, newContent]
FuzzyReplace(content, old_code, new_code) ==
    LET normalizedContent == CollapseWs(content)
        normalizedOld == CollapseWs(old_code)
        index == IndexOf(normalizedContent, normalizedOld)
        start == FuzzyStart(content, index, 0, 0)
        end == FuzzyEnd(content, start, Len(normalizedOld), start, 0)
    IN  IF index # -1
        THEN [matchFound |-> JsTrue,
              newContent |-> Substring(content, 0, start) \o new_code
                             \o SubstringFrom(content, end)]
        ELSE [matchFound |-> JsFalse, newContent |-> Undefined]

\* The exact branch of smartReplace
ExactReplace(content, old_code, new_code) ==
    IF Includes(content, old_code)
    THEN [matchFound |-> JsTrue,
          newContent |-> StringReplace(content, old_code, new_code)]
    ELSE [matchFound |-> JsFalse, newContent |-> Undefined]

(***************************************************************************)
(* smartMatch: the four strategies of smart mode, each returning the new   *)
(* text (a string) or false                                                *)
(***************************************************************************)

\* A splice that drops the lines behind the ones it replaces
SpliceDroppingRest(lines, i, deleteCount, inserted) ==
    SubSeq(lines, 1, i) \o inserted

\* lines with the element at 0-based index i replaced by the given lines
Splice(lines, i, deleteCount, inserted) ==
    SubSeq(lines, 1, i) \o inserted \o SubSeq(lines, i + deleteCount + 1, Len(lines))

\* Strategy 1: Direct replacement
Strategy1Direct(content, oldCode, newCode) ==
    IF Includes(content, oldCode)
    THEN JsString(StringReplace(content, oldCode, newCode))
    ELSE JsFalse

\* Strategy 2 without the line's indentation
Strategy2NoIndent(content, oldCode, newCode) ==
    LET trimmedOld == Trim(oldCode)
        lines == Split(content, "\n")
        hits == {i \in 0..(Len(lines) - 1) : Trim(lines[i + 1]) = trimmedOld}
    IN  IF hits = {} THEN JsFalse
        ELSE JsString(Join(Splice(lines, Min(hits), 1, <<Trim(newCode)>>), "\n"))

\* Strategy 2: Trim and match
Strategy2TrimAndMatch(content, oldCode, newCode) ==
    LET trimmedOld == Trim(oldCode)
        lines == Split(content, "\n")
        hits == {i \in 0..(Len(lines) - 1) : Trim(lines[i + 1]) = trimmedOld}
    IN  IF hits = {} THEN JsFalse
        ELSE LET i == Min(hits)
                 indent == LeadingWs(lines[i + 1])
             IN  JsString(Join(Splice(lines, i, 1, <<indent \o Trim(newCode)>>), "\n"))

\* Strategy 3 with every new line keeping its own indentation
Strategy3OwnIndent(content, oldCode, newCode) ==
    LET lines == Split(content, "\n")
        oldLines == Split(Trim(oldCode), "\n")
        newLines == Split(Trim(newCode), "\n")
        hits == {i \in 0..(Len(lines) - Len(oldLines)) :
                    \A j \in 0..(Len(oldLines) - 1) :
                        Trim(lines[i + j + 1]) = Trim(oldLines[j + 1])}
    IN  IF hits = {} THEN JsFalse
        ELSE LET i == Min(hits)
                 indent == LeadingWs(lines[i + 1])
                 indentedNewLines == [k \in 1..Len(newLines) |-> indent \o newLines[k]]
             IN  JsString(Join(Splice(lines, i, Len(oldLines), indentedNewLines), "\n"))

\* Strategy 3: Multi-line smart match
Strategy3MultiLine(content, oldCode, newCode) ==
    LET lines == Split(content, "\n")
        oldLines == Split(Trim(oldCode), "\n")
        newLines == Split(Trim(newCode), "\n")
        hits == {i \in 0..(Len(lines) - Len(oldLines)) :
                    \A j \in 0..(Len(oldLines) - 1) :
                        Trim(lines[i + j + 1]) = Trim(oldLines[j + 1])}
    IN  IF hits = {} THEN JsFalse
        ELSE LET i == Min(hits)
                 indent == LeadingWs(lines[i + 1])
                 indentedNewLines == [k \in 1..Len(newLines) |-> indent \o Trim(newLines[k])]
             IN  JsString(Join(Splice(lines, i, Len(oldLines), indentedNewLines), "\n"))

\* if (oldParts.length > 3)
MinPartialParts == 3

\* if (matchCount / oldParts.length > 0.8), in hundredths
PartialThreshold == 80

\* The test of strategy 4 on one line
PartialOverlap(matchCount, partsLength) ==
    matchCount * 100 > PartialThreshold * partsLength

\* Strategy 4: Partial line match
Strategy4PartialLine(content, oldCode, newCode) ==
    LET lines == Split(content, "\n")
        oldParts == SplitWs(Trim(oldCode))
        matchCount(i) ==
            LET lineParts == SplitWs(Trim(lines[i + 1]))
            IN  Cardinality({k \in 1..Len(oldParts) : ArrayIncludes(lineParts, oldParts[k])})
        hits == {i \in 0..(Len(lines) - 1) : PartialOverlap(matchCount(i), Len(oldParts))}
    IN  IF Len(oldParts) > MinPartialParts /\ hits # {}
        THEN LET i == Min(hits)
                 indent == LeadingWs(lines[i + 1])
             IN  JsString(Join(Splice(lines, i, 1, <<indent \o Trim(newCode)>>), "\n"))
        ELSE JsFalse

\* smartMatch(content, oldCode, newCode): the first strategy that returns
\* a text, else false
smartMatch(content, oldCode, newCode) ==
    IF Strategy1Direct(content, oldCode, newCode) # JsFalse
    THEN Strategy1Direct(content, oldCode, newCode)
    ELSE IF Strategy2TrimAndMatch(content, oldCode, newCode) # JsFalse
    THEN Strategy2TrimAndMatch(content, oldCode, newCode)
    ELSE IF Strategy3MultiLine(content, oldCode, newCode) # JsFalse
    THEN Strategy3MultiLine(content, oldCode, newCode)
    ELSE Strategy4PartialLine(content, oldCode, newCode)

\* The smart branch of smartReplace: matchFound is smartMatch's value, and
\* newContent is assigned only if (matchFound)
SmartModeReplace(content, old_code, new_code) ==
    LET found == smartMatch(content, old_code, new_code)
    IN  [matchFound |-> found,
         newContent |-> IF Truthy(found) THEN found.text ELSE Undefined]

\* ReplaceByMode with the fuzzy branch running the exact match
ReplaceByModeFuzzyAsExact(content, old_code, new_code, match_mode) ==
    CASE match_mode \in {"exact", "fuzzy"} -> ExactReplace(content, old_code, new_code)
      [] OTHER -> SmartModeReplace(content, old_code, new_code)

\* The matching part of smartReplace (between the read and the write)
ReplaceByMode(content, old_code, new_code, match_mode) ==
    CASE match_mode = "exact" -> ExactReplace(content, old_code, new_code)
      [] match_mode = "fuzzy" -> FuzzyReplace(content, old_code, new_code)
      [] OTHER -> SmartModeReplace(content, old_code, new_code)

(***************************************************************************)
(* The sandbox: _resolveSandboxPath                                        *)
(***************************************************************************)

\* SANDBOX_DIR, an absolute directory: here "/sb"
SANDBOX_DIR == <<"/", "s", "b">>

\* The segments of a path after "." and empty segments are dropped and
\* each ".." has removed the segment before it (path.resolve's normal form)
RECURSIVE NormalSegments(_, _)
NormalSegments(segments, done) ==
    IF segments = <<>> THEN done
    ELSE IF Head(segments) \in {<<>>, <<".">>}
         THEN NormalSegments(Tail(segments), done)
    ELSE IF Head(segments) = <<".", ".">>
         THEN NormalSegments(Tail(segments),
                             IF done = <<>> THEN done ELSE SubSeq(done, 1, Len(done) - 1))
    ELSE NormalSegments(Tail(segments), Append(done, Head(segments)))

\* path.resolve(from, to) on POSIX paths, from absolute
PathResolve(from, to) ==
    LET joined == IF StartsWith(to, <<"/">>) THEN to ELSE from \o <<"/">> \o to
    IN  <<"/">> \o Join(NormalSegments(Split(joined, "/"), <<>>), "/")

\* _resolveSandboxPath(userPath): [throws, path]
ResolveSandboxPath(userPath) ==
    LET resolvedPath == PathResolve(SANDBOX_DIR, userPath)
    IN  [throws |-> ~StartsWith(resolvedPath, SANDBOX_DIR), path |-> resolvedPath]

(***************************************************************************)
(* The handler's payloads: JSON.stringify of a result or of the error      *)
(* object built in the catch of the request handler                        *)
(***************************************************************************)

\* The own keys of the hints object of getErrorHint
HintKeys == {"apply_code_patch", "smart_replace", "replace_text", "insert_lines", "delete_lines"}

\* What hints[toolName] finds on Object.prototype when toolName is no own
\* key: functions, and the prototype object itself for "__proto__"
ObjectPrototypeFunctions ==
    {"constructor", "toString", "toLocaleString", "valueOf", "hasOwnProperty",
     "isPrototypeOf", "propertyIsEnumerable"}

\* getErrorHint(toolName, error): hints[toolName] || 'Check inputs and try again.'
getErrorHint(toolName) ==
    IF toolName \in HintKeys THEN [type |-> "string", text |-> toolName]
    ELSE IF toolName \in ObjectPrototypeFunctions THEN [type |-> "function", text |-> toolName]
    ELSE IF toolName = "__proto__" THEN [type |-> "object", text |-> toolName]
    ELSE [type |-> "string", text |-> "Check inputs and try again."]

\* No payload yet
NoResponse ==
    [kind |-> "none", success |-> FALSE, keys |-> {}, tool_name |-> "", message |-> "",
     hint |-> "", method |-> "", hunks_applied |-> -1]

\* The catch of the request handler: JSON.stringify({error: true, tool_name,
\* message, hint}); JSON.stringify leaves out a key whose value is a function.
ErrorPayload(name, message) ==
    [kind |-> "error", success |-> FALSE,
     keys |-> {"error", "tool_name", "message"}
              \cup (IF getErrorHint(name).type = "function" THEN {} ELSE {"hint"}),
     tool_name |-> name, message |-> message,
     hint |-> getErrorHint(name).text, method |-> "", hunks_applied |-> -1]

\* The result of smartReplace
ReplaceResult ==
    [kind |-> "result", success |-> TRUE,
     keys |-> {"success", "file_path", "message", "match_mode"},
     tool_name |-> "", message |-> "Code replaced successfully using smart matching.",
     hint |-> "", method |-> "", hunks_applied |-> -1]

\* The result of applyCodePatch when every hunk applied
StructuredResult(hunks) ==
    [kind |-> "result", success |-> TRUE,
     keys |-> {"success", "file_path", "message", "hunks_applied", "method"},
     tool_name |-> "", message |-> "Patch applied successfully.",
     hint |-> "", method |-> "diff_match_patch", hunks_applied |-> hunks]

\* alternativePatch reporting no success after it replaced
AlternativeResultUnsuccessful ==
    [kind |-> "result", success |-> FALSE,
     keys |-> {"success", "file_path", "message", "method"},
     tool_name |-> "", message |-> "Patch applied successfully using alternative method.",
     hint |-> "", method |-> "simple_replacement", hunks_applied |-> -1]

\* The result of alternativePatch when it replaced
AlternativeResult ==
    [kind |-> "result", success |-> TRUE,
     keys |-> {"success", "file_path", "message", "method"},
     tool_name |-> "", message |-> "Patch applied successfully using alternative method.",
     hint |-> "", method |-> "simple_replacement", hunks_applied |-> -1]

\* The messages of the errors the tools throw
SecurityViolation == "Security Violation: Path traversal attempt blocked."
FileNotFound == "ENOENT: no such file or directory"
CodeNotFound == "Could not find the specified code to replace. The old_code was not found in the file."
HunksFailed == "Patch application failed: hunks failed."
InvalidPatch == "Invalid patch string"
WriteError == "EIO: write failed"
UnknownTool == "Unknown tool"
TextNotFound == "Text not found"
InvalidLineRange == "Invalid line range"

\* return { success: false } of alternativePatch
AlternativeFailure ==
    [kind |-> "result", success |-> FALSE, keys |-> {"success"},
     tool_name |-> "", message |-> "", hint |-> "", method |-> "", hunks_applied |-> -1]

(***************************************************************************)
(* applyCodePatch: fixPatchFormat, the diff-match-patch calls, and         *)
(* alternativePatch                                                        *)
(***************************************************************************)

Digits == {"0", "1", "2", "3", "4", "5", "6", "7", "8", "9"}

\* The length of the run of digits of s at 0-based offset k
RECURSIVE DigitRun(_, _)
DigitRun(s, k) ==
    IF k < Len(s) /\ s[k + 1] \in Digits THEN 1 + DigitRun(s, k + 1) ELSE 0

\* The match of /@@ -(\d+) \+(\d+) @@/ at offset k: its length (0: none)
\* and the text of its first group
HeaderMatchAt(s, k) ==
    LET d1 == DigitRun(s, k + 4)
        d2 == DigitRun(s, k + 4 + d1 + 2)
        ok == /\ Substring(s, k, k + 4) = <<"@", "@", " ", "-">>
              /\ d1 > 0
              /\ Substring(s, k + 4 + d1, k + 4 + d1 + 2) = <<" ", "+">>
              /\ d2 > 0
              /\ Substring(s, k + 4 + d1 + 2 + d2, k + 4 + d1 + 2 + d2 + 3) = <<" ", "@", "@">>
    IN  IF k + 4 <= Len(s) /\ ok
        THEN [length |-> 4 + d1 + 2 + d2 + 3, group1 |-> Substring(s, k + 4, k + 4 + d1)]
        ELSE [length |-> 0, group1 |-> <<>>]

\* fixed.replace(/@@ -(\d+) \+(\d+) @@/g, '@@ -$1,1 +$1,1 @@'), from offset k
RECURSIVE RepairHeaders(_, _)
RepairHeaders(s, k) ==
    IF k >= Len(s) THEN <<>>
    ELSE LET m == HeaderMatchAt(s, k) IN
         IF m.length > 0
         THEN <<"@", "@", " ", "-">> \o m.group1 \o <<",", "1", " ", "+">> \o m.group1
              \o <<",", "1", " ", "@", "@">> \o RepairHeaders(s, k + m.length)
         ELSE <<s[k + 1]>> \o RepairHeaders(s, k + 1)

\* A repair that takes every line without a prefix for a context line
RepairPrefixAsContext(line) ==
    IF StartsWith(line, <<" ">>) \/ StartsWith(line, <<"-">>) \/ StartsWith(line, <<"+">>)
    THEN line
    ELSE <<" ">> \o line

\* The prefix a diff line without one is given ("Try to infer the prefix")
RepairPrefix(line) ==
    IF StartsWith(line, <<" ">>) \/ StartsWith(line, <<"-">>) \/ StartsWith(line, <<"+">>)
    THEN line
    ELSE IF Includes(line, <<"-", " ">>)
         THEN <<"-">> \o SubstringFrom(line, IndexOf(line, <<"-", " ">>) + 2)
    ELSE IF Includes(line, <<"+", " ">>)
         THEN <<"+">> \o SubstringFrom(line, IndexOf(line, <<"+", " ">>) + 2)
    ELSE <<" ">> \o line

\* The loop of fixPatchFormat over the lines, inDiff as it stands
RECURSIVE FixLines(_, _)
FixLines(lines, inDiff) ==
    IF lines = <<>> THEN <<>>
    ELSE LET line == Head(lines) IN
         IF StartsWith(line, <<"@", "@">>)
         THEN <<line>> \o FixLines(Tail(lines), TRUE)
         ELSE IF inDiff /\ Len(line) > 0
         THEN <<RepairPrefix(line)>> \o FixLines(Tail(lines), inDiff)
         ELSE <<line>> \o FixLines(Tail(lines), inDiff)

\* fixPatchFormat(patch, originalContent)
fixPatchFormat(patch) ==
    Join(FixLines(Split(RepairHeaders(patch, 0), "\n"), FALSE), "\n")

\* s.replace(/\r\n/g, '\n')
RECURSIVE NormalizeEol(_)
NormalizeEol(s) ==
    IF s = <<>> THEN <<>>
    ELSE IF Len(s) >= 2 /\ s[1] = "\r" /\ s[2] = "\n"
         THEN <<"\n">> \o NormalizeEol(SubSeq(s, 3, Len(s)))
         ELSE <<Head(s)>> \o NormalizeEol(Tail(s))

\* The hunks of a patch text: its lines that start a hunk
HunkCount(patchText) ==
    Cardinality({k \in 1..Len(Split(patchText, "\n")) :
                    StartsWith(Split(patchText, "\n")[k], <<"@", "@">>)})

\* The sequences of n booleans
BoolSeqs(n) == [1..n -> BOOLEAN]

\* A text diff-match-patch may return that is not the text it was given
DmpText == <<"p">>

\* What this.dmp.patch_fromText(normalizedPatch) followed by
\* this.dmp.patch_apply(patches, normalizedContent) can do. The library is
\* not part of the repository: an empty patch text has no hunks and gives
\* the content back; a text whose first line is no hunk header makes
\* patch_fromText throw; otherwise the call may throw, or return a text with
\* one boolean per hunk (any of them false).
DmpOutcomes(normalizedPatch, normalizedContent) ==
    IF normalizedPatch = <<>>
    THEN {[throws |-> FALSE, results |-> <<>>, text |-> normalizedContent]}
    ELSE IF ~StartsWith(normalizedPatch, <<"@", "@">>)
    THEN {[throws |-> TRUE, results |-> <<>>, text |-> <<>>]}
    ELSE {[throws |-> TRUE, results |-> <<>>, text |-> <<>>]}
         \cup {[throws |-> FALSE, results |-> r, text |-> t] :
                  r \in BoolSeqs(HunkCount(normalizedPatch)),
                  t \in {normalizedContent, DmpText}}

\* A count of the failed hunks that finds none
FailedNone(results) == 0

\* results.filter(r => !r).length
Failed(results) == Cardinality({k \in 1..Len(results) : ~results[k]})

\* The loop of alternativePatch over the patch lines: the text collected
\* from the lines that start with sign and not with three of it
RECURSIVE AltCollect(_, _, _)
AltCollect(lines, sign, text) ==
    IF lines = <<>> THEN text
    ELSE LET line == Head(lines) IN
         IF StartsWith(line, <<sign>>) /\ ~StartsWith(line, <<sign, sign, sign>>)
         THEN AltCollect(Tail(lines), sign,
                         text \o (IF text # <<>> THEN <<"\n">> ELSE <<>>)
                              \o TrimStart(SubstringFrom(line, 1)))
         ELSE AltCollect(Tail(lines), sign, text)

\* alternativePatch up to its write: whether it replaces, and the text it
\* then writes
alternativePatch(patch_content, originalContent) ==
    LET lines == Split(patch_content, "\n")
        oldText == AltCollect(lines, "-", <<>>)
        newText == AltCollect(lines, "+", <<>>)
    IN  IF oldText # <<>> /\ newText # <<>> /\ Includes(originalContent, oldText)
        THEN [replaces |-> TRUE, newContent |-> StringReplace(originalContent, oldText, newText)]
        ELSE [replaces |-> FALSE, newContent |-> Undefined]

(***************************************************************************)
(* The state of the server: the sandbox file and the tool calls in flight  *)
(***************************************************************************)

VARIABLES
    disk,           \* resolved path -> the file's text, or NoFile
    pc,             \* call -> where the call stands
    request,        \* call -> request.params: the tool's name and arguments
    safePath,       \* call -> safePath of the tool
    content,        \* call -> content (originalContent) as read
    matchFound,     \* call -> matchFound of smartReplace
    newContent,     \* call -> newContent, the text to write
    dmpResult,      \* call -> what the diff-match-patch calls did
    caught,         \* call -> message of the error applyCodePatch's catch holds
    response,       \* call -> the payload the handler returned
    writes,         \* call -> completed writeFile calls (history)
    writeAttempts,  \* call -> writeFile calls started (history)
    altRuns,        \* call -> runs of alternativePatch (history)
    disk0           \* the disk when the calls arrived (history)

vars == <<disk, pc, request, safePath, content, matchFound, newContent, dmpResult,
          caught, response, writes, writeAttempts, altRuns, disk0>>

\* The calls the handler may have in flight at once
Calls == {1, 2}

\* A file that does not exist (readFile fails with ENOENT)
NoFile == <<"ENOENT">>

\* The file the calls edit, as the tools are given it and as it resolves
TargetRaw == <<"f">>
TargetPath == <<"/", "s", "b", "/", "f">>

\* A path that leaves the sandbox
OutsideRaw == <<".", ".", "/", "x">>

\* A path into a sibling directory whose name starts with the sandbox's
SiblingRaw == <<".", ".", "/", "s", "b", "x", "/", "f">>
SiblingPath == <<"/", "s", "b", "x", "/", "f">>

\* The files of the model's disk
DiskPaths == {TargetPath}

\* fs.readFile(path): the text, or NoFile when it throws ENOENT
ReadFile(d, path) == IF path \in DOMAIN d THEN d[path] ELSE NoFile

\* A write that appends the text to the file's
WriteFileAppending(d, path, text) ==
    [q \in DOMAIN d \cup {path} |->
        IF q # path THEN d[q]
        ELSE IF path \in DOMAIN d THEN d[path] \o text ELSE text]

\* fs.writeFile(path, text) completed: the whole text replaces the file's,
\* and a file that was not there is created
WriteFile(d, path, text) ==
    [q \in DOMAIN d \cup {path} |-> IF q = path THEN text ELSE d[q]]

NoRequest ==
    [name |-> "", file_path |-> <<>>, old_code |-> <<>>, new_code |-> <<>>,
     match_mode |-> "", patch_content |-> <<>>]

NoDmp == [throws |-> FALSE, results |-> <<>>, text |-> <<>>]

\* The handler returns payload for call p
Respond(p, payload) ==
    /\ response' = [response EXCEPT ![p] = payload]
    /\ pc' = [pc EXCEPT ![p] = "responded"]

\* The tools of the switch of the request handler that the model covers
ToolNames ==
    {"smart_replace", "apply_code_patch", "search_in_file", "replace_text", "delete_lines"}

\* The request handler up to the tool's first await: the switch on the name,
\* and the tool's _resolveSandboxPath
CallTool(p) ==
    /\ pc[p] = "request"
    /\ LET name == request[p].name
           resolved == ResolveSandboxPath(request[p].file_path)
       IN  IF name \notin ToolNames
           THEN /\ Respond(p, ErrorPayload(name, UnknownTool))
                /\ UNCHANGED safePath
           ELSE IF resolved.throws
           THEN /\ Respond(p, ErrorPayload(name, SecurityViolation))
                /\ UNCHANGED safePath
           ELSE /\ safePath' = [safePath EXCEPT ![p] = resolved.path]
                /\ pc' = [pc EXCEPT ![p] = CASE name = "smart_replace" -> "sr_read"
                                             [] name = "apply_code_patch" -> "cp_read"
                                             [] name = "replace_text" -> "rt_read"
                                             [] name = "delete_lines" -> "dl_read"
                                             [] OTHER -> "sf_read"]
                /\ UNCHANGED response
    /\ UNCHANGED <<disk, request, content, matchFound, newContent, dmpResult, caught,
                   writes, writeAttempts, altRuns, disk0>>

\* smartReplace: await fs.readFile(safePath, 'utf8')
SrRead(p) ==
    /\ pc[p] = "sr_read"
    /\ IF ReadFile(disk, safePath[p]) = NoFile
       THEN /\ Respond(p, ErrorPayload(request[p].name, FileNotFound))
            /\ UNCHANGED content
       ELSE /\ content' = [content EXCEPT ![p] = ReadFile(disk, safePath[p])]
            /\ pc' = [pc EXCEPT ![p] = "sr_match"]
            /\ UNCHANGED response
    /\ UNCHANGED <<disk, request, safePath, matchFound, newContent, dmpResult, caught,
                   writes, writeAttempts, altRuns, disk0>>

\* smartReplace from the read to the write: the match by mode, and the
\* throw if (!matchFound)
SrMatch(p) ==
    /\ pc[p] = "sr_match"
    /\ LET m == ReplaceByMode(content[p], request[p].old_code, request[p].new_code,
                              request[p].match_mode)
       IN  /\ matchFound' = [matchFound EXCEPT ![p] = m.matchFound]
           /\ newContent' = [newContent EXCEPT ![p] = m.newContent]
           /\ IF ~Truthy(m.matchFound)
              THEN Respond(p, ErrorPayload(request[p].name, CodeNotFound))
              ELSE /\ pc' = [pc EXCEPT ![p] = "sr_write"]
                   /\ UNCHANGED response
    /\ UNCHANGED <<disk, request, safePath, content, dmpResult, caught,
                   writes, writeAttempts, altRuns, disk0>>

\* smartReplace: await fs.writeFile(safePath, newContent, 'utf-8'), which
\* completes or throws, and the return
SrWrite(p) ==
    /\ pc[p] = "sr_write"
    /\ writeAttempts' = [writeAttempts EXCEPT ![p] = @ + 1]
    /\ \E ok \in BOOLEAN :
          IF ok
          THEN /\ disk' = WriteFile(disk, safePath[p], newContent[p])
               /\ writes' = [writes EXCEPT ![p] = @ + 1]
               /\ Respond(p, ReplaceResult)
          ELSE /\ Respond(p, ErrorPayload(request[p].name, WriteError))
               /\ UNCHANGED <<disk, writes>>
    /\ UNCHANGED <<request, safePath, content, matchFound, newContent, dmpResult, caught,
                   altRuns, disk0>>

\* applyCodePatch: the read (a missing file reads as ''), fixPatchFormat,
\* the normalizing of line ends, and the diff-match-patch calls in the try
CpRead(p) ==
    /\ pc[p] = "cp_read"
    /\ LET originalContent == IF ReadFile(disk, safePath[p]) = NoFile THEN <<>>
                              ELSE ReadFile(disk, safePath[p])
           normalizedContent == NormalizeEol(originalContent)
           normalizedPatch == NormalizeEol(fixPatchFormat(request[p].patch_content))
       IN  /\ content' = [content EXCEPT ![p] = originalContent]
           /\ \E d \in DmpOutcomes(normalizedPatch, normalizedContent) :
                 /\ dmpResult' = [dmpResult EXCEPT ![p] = d]
                 /\ IF d.throws
                    THEN /\ caught' = [caught EXCEPT ![p] = InvalidPatch]
                         /\ pc' = [pc EXCEPT ![p] = "cp_catch"]
                         /\ UNCHANGED newContent
                    ELSE IF Failed(d.results) > 0
                    THEN /\ pc' = [pc EXCEPT ![p] = "cp_alt"]
                         /\ UNCHANGED <<caught, newContent>>
                    ELSE /\ newContent' = [newContent EXCEPT ![p] = d.text]
                         /\ pc' = [pc EXCEPT ![p] = "cp_write"]
                         /\ UNCHANGED caught
    /\ UNCHANGED <<disk, request, safePath, matchFound, response,
                   writes, writeAttempts, altRuns, disk0>>

\* applyCodePatch, no hunk failed: await fs.writeFile(safePath, newContent),
\* and the return; a throw of writeFile is caught by the catch
CpWrite(p) ==
    /\ pc[p] = "cp_write"
    /\ writeAttempts' = [writeAttempts EXCEPT ![p] = @ + 1]
    /\ \E ok \in BOOLEAN :
          IF ok
          THEN /\ disk' = WriteFile(disk, safePath[p], newContent[p])
               /\ writes' = [writes EXCEPT ![p] = @ + 1]
               /\ Respond(p, StructuredResult(Len(dmpResult[p].results)))
               /\ UNCHANGED caught
          ELSE /\ caught' = [caught EXCEPT ![p] = WriteError]
               /\ pc' = [pc EXCEPT ![p] = "cp_catch"]
               /\ UNCHANGED <<disk, writes, response>>
    /\ UNCHANGED <<request, safePath, content, matchFound, newContent, dmpResult,
                   altRuns, disk0>>

\* alternativePatch is entered (from the try when hunks failed, from the
\* catch otherwise): it scans the patch, and either starts its write or
\* returns { success: false }, on which the try throws "hunks failed" and
\* the catch rethrows the error it holds
CpAlternative(p) ==
    /\ pc[p] \in {"cp_alt", "cp_catch"}
    /\ altRuns' = [altRuns EXCEPT ![p] = @ + 1]
    /\ LET alt == alternativePatch(request[p].patch_content, content[p])
       IN  IF alt.replaces
           THEN /\ newContent' = [newContent EXCEPT ![p] = alt.newContent]
                /\ pc' = [pc EXCEPT ![p] = IF pc[p] = "cp_alt" THEN "cp_alt_write"
                                           ELSE "cp_catch_write"]
                /\ UNCHANGED <<caught, response>>
           ELSE IF pc[p] = "cp_alt"
           THEN /\ caught' = [caught EXCEPT ![p] = HunksFailed]
                /\ pc' = [pc EXCEPT ![p] = "cp_catch"]
                /\ UNCHANGED <<newContent, response>>
           ELSE /\ Respond(p, ErrorPayload(request[p].name, caught[p]))
                /\ UNCHANGED <<caught, newContent>>
    /\ UNCHANGED <<disk, request, safePath, content, matchFound, dmpResult,
                   writes, writeAttempts, disk0>>

\* alternativePatch: await fs.writeFile(safePath, newContent) and its
\* return value (its own catch turns a throw into { success: false }); then
\* the caller's if (alternativeResult.success) return alternativeResult
CpAlternativeWrite(p) ==
    /\ pc[p] \in {"cp_alt_write", "cp_catch_write"}
    /\ writeAttempts' = [writeAttempts EXCEPT ![p] = @ + 1]
    /\ \E ok \in BOOLEAN :
          LET alternativeResult == IF ok THEN AlternativeResult ELSE AlternativeFailure
          IN  /\ IF ok
                 THEN /\ disk' = WriteFile(disk, safePath[p], newContent[p])
                      /\ writes' = [writes EXCEPT ![p] = @ + 1]
                 ELSE UNCHANGED <<disk, writes>>
              /\ IF alternativeResult.success
                 THEN /\ Respond(p, alternativeResult)
                      /\ UNCHANGED caught
                 ELSE IF pc[p] = "cp_alt_write"
                 THEN /\ caught' = [caught EXCEPT ![p] = HunksFailed]
                      /\ pc' = [pc EXCEPT ![p] = "cp_catch"]
                      /\ UNCHANGED response
                 ELSE /\ Respond(p, ErrorPayload(request[p].name, caught[p]))
                      /\ UNCHANGED caught
    /\ UNCHANGED <<request, safePath, content, matchFound, newContent, dmpResult,
                   altRuns, disk0>>

\* The letters of the model's texts that have an upper case form
UpperCase == [c \in {"a", "b"} |-> IF c = "a" THEN "A" ELSE "B"]

\* The canonical form the flag i compares characters in
Canonicalize(s) == [k \in 1..Len(s) |-> IF s[k] \in DOMAIN UpperCase THEN UpperCase[s[k]]
                                         ELSE s[k]]

\* searchRegex.test(line) for the global regex that matches search_text
\* literally (its special characters are escaped): the match is looked for
\* from lastIndex on; a match sets lastIndex behind it, a failure sets it
\* to 0.  [found, lastIndex]
RegexTest(line, search_text, case_sensitive, lastIndex) ==
    LET subject == IF case_sensitive THEN line ELSE Canonicalize(line)
        pattern == IF case_sensitive THEN search_text ELSE Canonicalize(search_text)
        at == {k \in lastIndex..Len(subject) :
                 /\ k + Len(pattern) <= Len(subject)
                 /\ Substring(subject, k, k + Len(pattern)) = pattern}
    IN  IF at = {} THEN [found |-> FALSE, lastIndex |-> 0]
        ELSE [found |-> TRUE, lastIndex |-> Min(at) + Len(pattern)]

\* line.search(searchRegex) + 1: the first match in the line, whatever
\* lastIndex is
ColumnStart(line, search_text, case_sensitive) ==
    IndexOf(IF case_sensitive THEN line ELSE Canonicalize(line),
            IF case_sensitive THEN search_text ELSE Canonicalize(search_text)) + 1

\* lines.forEach of searchInFile from the line of index on: the matches
\* pushed
RECURSIVE SearchLines(_, _, _, _, _)
SearchLines(lines, index, search_text, case_sensitive, lastIndex) ==
    IF index >= Len(lines) THEN <<>>
    ELSE LET line == lines[index + 1]
             t == RegexTest(line, search_text, case_sensitive, lastIndex)
         IN  (IF t.found
              THEN <<[line_number |-> index + 1, content |-> line,
                      column_start |-> ColumnStart(line, search_text, case_sensitive)]>>
              ELSE <<>>)
             \o SearchLines(lines, index + 1, search_text, case_sensitive, t.lastIndex)

\* The result of searchInFile
SearchResult(matches) ==
    [kind |-> "result", success |-> TRUE,
     keys |-> {"success", "file_path", "search_text", "matches", "total_matches"},
     tool_name |-> "", message |-> "", hint |-> "", method |-> "", hunks_applied |-> -1,
     matches |-> matches, total_matches |-> Len(matches)]

\* searchInFile: await fs.readFile(safePath, 'utf8'), the scan of the
\* lines, and the return
SearchInFile(p) ==
    /\ pc[p] = "sf_read"
    /\ IF ReadFile(disk, safePath[p]) = NoFile
       THEN /\ Respond(p, ErrorPayload(request[p].name, FileNotFound))
            /\ UNCHANGED content
       ELSE /\ content' = [content EXCEPT ![p] = ReadFile(disk, safePath[p])]
            /\ Respond(p, SearchResult(SearchLines(Split(ReadFile(disk, safePath[p]), "\n"), 0,
                                                   request[p].search_text,
                                                   request[p].case_sensitive, 0)))
    /\ UNCHANGED <<disk, request, safePath, matchFound, newContent, dmpResult, caught,
                   writes, writeAttempts, altRuns, disk0>>

Next ==
    \E p \in Calls :
        \/ CallTool(p)
        \/ SearchInFile(p)
        \/ SrRead(p)
        \/ SrMatch(p)
        \/ SrWrite(p)
        \/ CpRead(p)
        \/ CpWrite(p)
        \/ CpAlternative(p)
        \/ CpAlternativeWrite(p)

(***************************************************************************)
(* The inputs: every short text over a small alphabet, and longer texts    *)
(* that exercise the line, block and token strategies and the patch paths  *)
(***************************************************************************)

\* The longest file text, old_code and new_code that are enumerated in full
MaxDocLen == 3
MaxOldLen == 2
MaxNewLen == 1

\* The texts over alphabet of at most n characters
Strs(alphabet, n) == UNION {[1..k -> alphabet] : k \in 0..n}

DocAlphabet == {"a", " ", "\n"}
NewAlphabet == {"b", " ", "$"}

SampleDocs ==
    { <<"a", " ", " ", "a", " ", "a">>,                  \* "a  a a"
      <<"a", "\n", " ", "b">>,                           \* "a" / " b"
      <<" ", "a", " ", "\n", " ", "a">>,                  \* " a " / " a"
      <<"x", "\n", " ", "a", " ", "b", " ", "c", " ", "d">>,   \* "x" / " a b c d"
      <<" ", "e", " ", "d", " ", "c", " ", "b", " ", "a">>,    \* " e d c b a"
      <<"$", "&">>,                                      \* "$&"
      <<"A", "\n", "a", " ", "a">> }                      \* "A" / "a a"

SampleOlds ==
    { <<"a", " ", "a">>,                                 \* "a a"
      <<"a", "\n", " ", "b">>,                           \* "a" / " b"
      <<"a", "\n", "a">>,                                \* "a" / "a"
      <<"a", " ", "b", " ", "c", " ", "d", " ", "e">>,     \* five tokens
      <<"a", " ", "b", " ", "c">>,                        \* three tokens
      <<"$", "&">> }                                     \* "$&"

SampleNews ==
    { <<"$", "$">>, <<"$", "&">>, <<"$", "'">>,
      <<"a", "\n", " ", "c">>,                           \* "a" / " c"
      <<" ", "b", "\n", " ", " ", "c", " ">> }            \* " b" / "  c "

Docs == Strs(DocAlphabet, MaxDocLen) \cup SampleDocs
Olds == Strs(DocAlphabet, MaxOldLen) \cup SampleOlds
News == Strs(NewAlphabet, MaxNewLen) \cup SampleNews

\* match_mode: the three modes of the tool's schema
Modes == {"exact", "fuzzy", "smart"}

SamplePatches ==
    { <<>>,
      <<"-", " ", "a", "\n", "+", " ", "b">>,                                 \* no header
      <<"-", "a", "\n", "+", "$", "&">>,                                      \* no header, "$&"
      <<"@", "@", " ", "-", "1", " ", "+", "1", " ", "@", "@", "\n", "-", "a", "\n", "+", "b">>,
      <<"@", "@", " ", "-", "1", ",", "1", " ", "+", "1", ",", "1", " ", "@", "@", "\n",
        "-", "z", "\n", "+", "b">>,
      <<"@", "@", " ", "-", "1", " ", "+", "1", " ", "@", "@", "\n", "-", "a", "\n", "+", "b", "\n",
        "@", "@", " ", "-", "3", " ", "+", "3", " ", "@", "@", "\n", " ", "a">> }

ReplaceRequests ==
    {[name |-> "smart_replace", file_path |-> TargetRaw, old_code |-> o, new_code |-> n,
      match_mode |-> m, patch_content |-> <<>>] : o \in Olds, n \in News, m \in Modes}

PatchRequests ==
    {[name |-> "apply_code_patch", file_path |-> TargetRaw, old_code |-> <<>>,
      new_code |-> <<>>, match_mode |-> "", patch_content |-> t] : t \in SamplePatches}

\* Calls of a tool the switch does not know, and calls with a path that
\* leaves the sandbox
OtherRequests ==
    {[name |-> n, file_path |-> f, old_code |-> <<"a">>, new_code |-> <<"b">>,
      match_mode |-> "exact", patch_content |-> <<"-", "a", "\n", "+", "b">>] :
        n \in {"no_such_tool", "constructor", "smart_replace", "apply_code_patch"},
        f \in {OutsideRaw}}

\* Calls for a file in the sibling directory
SiblingRequests ==
    {[name |-> "smart_replace", file_path |-> SiblingRaw, old_code |-> <<"a">>,
      new_code |-> <<"b">>, match_mode |-> "exact", patch_content |-> <<>>],
     [name |-> "apply_code_patch", file_path |-> SiblingRaw, old_code |-> <<>>,
      new_code |-> <<>>, match_mode |-> "", patch_content |-> <<>>]}

\* Calls of search_in_file
SearchRequests ==
    {[name |-> "search_in_file", file_path |-> TargetRaw, search_text |-> t,
      case_sensitive |-> c] :
        t \in { <<>>, <<"a">>, <<"A">>, <<" ", "a">> }, c \in BOOLEAN}

Requests ==
    ReplaceRequests \cup PatchRequests \cup OtherRequests \cup SiblingRequests
        \cup SearchRequests

\* One call arrives; the file exists with some text, or does not exist
Init ==
    /\ disk \in [DiskPaths -> Docs \cup {NoFile}]
    /\ disk0 = disk
    /\ request \in {[p \in Calls |-> IF p = 1 THEN r ELSE NoRequest] : r \in Requests}
    /\ pc = [p \in Calls |-> IF p = 1 THEN "request" ELSE "idle"]
    /\ safePath = [p \in Calls |-> <<>>]
    /\ content = [p \in Calls |-> Undefined]
    /\ matchFound = [p \in Calls |-> JsFalse]
    /\ newContent = [p \in Calls |-> Undefined]
    /\ dmpResult = [p \in Calls |-> NoDmp]
    /\ caught = [p \in Calls |-> ""]
    /\ response = [p \in Calls |-> NoResponse]
    /\ writes = [p \in Calls |-> 0]
    /\ writeAttempts = [p \in Calls |-> 0]
    /\ altRuns = [p \in Calls |-> 0]

Spec == Init /\ [][Next]_vars

(***************************************************************************)
(* The vocabulary of the properties, defined from the meaning of the words *)
(* and not from the operators above                                        *)
(***************************************************************************)

\* piece stands in text at 0-based offset k
OccursAt(text, piece, k) ==
    /\ k + Len(piece) <= Len(text)
    /\ \A i \in 1..Len(piece) : text[k + i] = piece[i]

\* piece occurs verbatim in text
OccursIn(text, piece) == \E k \in 0..Len(text) : OccursAt(text, piece, k)

\* The offset of the first (topmost) occurrence
FirstOffset(text, piece) ==
    CHOOSE k \in 0..Len(text) :
        OccursAt(text, piece, k) /\ \A j \in 0..(k - 1) : ~OccursAt(text, piece, j)

\* text with the span [from, to) replaced by new, character for character
WithSpan(text, from, to, new) ==
    [i \in 1..(Len(text) - (to - from) + Len(new)) |->
        IF i <= from THEN text[i]
        ELSE IF i <= from + Len(new) THEN new[i - from]
        ELSE text[i - Len(new) + (to - from)]]

\* text with its first occurrence of piece replaced by new
FirstOccurrenceReplaced(text, piece, new) ==
    WithSpan(text, FirstOffset(text, piece), FirstOffset(text, piece) + Len(piece), new)

\* The positions of the characters of s that are not whitespace
Ink(s) == {i \in 1..Len(s) : s[i] \notin {" ", "\t", "\n", "\r"}}

Max(S) == CHOOSE x \in S : \A y \in S : x >= y

\* s without its leading and trailing whitespace
Trimmed(s) == IF Ink(s) = {} THEN <<>> ELSE SubSeq(s, Min(Ink(s)), Max(Ink(s)))

\* The leading whitespace of s
Indentation(s) == IF Ink(s) = {} THEN s ELSE SubSeq(s, 1, Min(Ink(s)) - 1)

\* s and t are equal up to the lengths of their runs of whitespace
SameUpToWhitespace(s, t) == CollapseWs(s) = CollapseWs(t)

\* The positions of the line breaks of text, and its number of lines
Breaks(text) == {i \in 1..Len(text) : text[i] = "\n"}
LineCount(text) == Cardinality(Breaks(text)) + 1

\* The k-th line break (k = 0: before the text, k = LineCount: after it)
BreakAt(text, k) ==
    IF k = 0 THEN 0
    ELSE IF k > Cardinality(Breaks(text)) THEN Len(text) + 1
    ELSE CHOOSE i \in Breaks(text) : Cardinality({j \in Breaks(text) : j < i}) = k - 1

\* Line k of text (1-based), without its line break
LineOf(text, k) == SubSeq(text, BreakAt(text, k - 1) + 1, BreakAt(text, k) - 1)

\* text with its lines k..(k + n - 1) replaced by the text new
WithLines(text, k, n, new) ==
    WithSpan(text, BreakAt(text, k - 1), BreakAt(text, k + n - 1) - 1, new)

\* The lines of new, each trimmed and given the indentation indent
RECURSIVE Reindented(_, _, _)
Reindented(new, indent, k) ==
    IF k > LineCount(new) THEN <<>>
    ELSE (IF k = 1 THEN <<>> ELSE <<"\n">>) \o indent \o Trimmed(LineOf(new, k))
         \o Reindented(new, indent, k + 1)

\* The whitespace-separated tokens of s, as a sequence of texts
RECURSIVE Tokens(_)
Tokens(s) ==
    IF Ink(s) = {} THEN <<>>
    ELSE LET from == Min(Ink(s))
             stops == {i \in from..Len(s) : i \notin Ink(s)}
             to == IF stops = {} THEN Len(s) ELSE Min(stops) - 1
         IN  <<SubSeq(s, from, to)>> \o Tokens(SubSeq(s, to + 1, Len(s)))

\* How many of the tokens of old are among the tokens of line
TokensPresent(old, line) ==
    Cardinality({k \in 1..Len(Tokens(old)) :
                    \E j \in 1..Len(Tokens(line)) : Tokens(line)[j] = Tokens(old)[k]})

\* A smart_replace call in the given mode has returned, after reading the
\* file, and not because the file system failed the write
Settled(p, mode) ==
    /\ pc[p] = "responded"
    /\ request[p].name = "smart_replace"
    /\ request[p].match_mode = mode
    /\ content[p] # Undefined
    /\ response[p].message # WriteError

\* The call returned a result / the no-match error
Succeeded(p) == response[p].kind = "result" /\ response[p].success
NoMatch(p) == response[p].kind = "error" /\ response[p].message = CodeNotFound

\* The file the calls edit, as it is now
File == disk[TargetPath]

(***************************************************************************)
(* C1..C4: the strategy chain and the match modes                          *)
(***************************************************************************)

\* The text of the earliest of the four strategies of smart mode that finds
\* an occurrence of old in text, or false when none does
EarliestStrategy(text, old, new) ==
    LET found == {k \in 1..4 :
                    (CASE k = 1 -> Strategy1Direct(text, old, new)
                       [] k = 2 -> Strategy2TrimAndMatch(text, old, new)
                       [] k = 3 -> Strategy3MultiLine(text, old, new)
                       [] OTHER -> Strategy4PartialLine(text, old, new)) # JsFalse}
    IN  IF found = {} THEN JsFalse
        ELSE CASE Min(found) = 1 -> Strategy1Direct(text, old, new)
               [] Min(found) = 2 -> Strategy2TrimAndMatch(text, old, new)
               [] Min(found) = 3 -> Strategy3MultiLine(text, old, new)
               [] OTHER -> Strategy4PartialLine(text, old, new)

\* C1: in smart mode the text written is the transformation of the earliest
\* strategy, in the order ExactSubstring, TrimmedSingleLine, MultiLineBlock,
\* PartialTokenOverlap, that finds any occurrence: whenever one of them
\* finds one, the call succeeds and the file holds that strategy's text.
C1_EarliestStrategyWritten ==
    \A p \in Calls :
        Settled(p, "smart") =>
            LET first == EarliestStrategy(content[p], request[p].old_code, request[p].new_code)
            IN  first # JsFalse => (Succeeded(p) /\ File = first.text)

\* C2 as claimed: fuzzy mode runs ExactSubstring first, so for every document
\* in which oldText occurs verbatim the fuzzy-mode result is the exact-mode
\* result, the first verbatim occurrence replaced.
C2_FuzzyEqualsExact ==
    \A p \in Calls :
        (Settled(p, "fuzzy") /\ OccursIn(content[p], request[p].old_code)) =>
            /\ Succeeded(p)
            /\ File = FirstOccurrenceReplaced(content[p], request[p].old_code,
                                              request[p].new_code)

\* C2 as amended: exact mode finds a match exactly when oldText occurs
\* verbatim; fuzzy mode runs only the whitespace-normalized strategy, and
\* finds a match exactly when the normalized oldText occurs in the normalized
\* document, hence whenever oldText occurs verbatim; smart mode's matchFound
\* is the text of the earliest strategy of its chain.
C2_ModeGating ==
    \A p \in Calls :
        /\ Settled(p, "exact") =>
              (NoMatch(p) <=> ~OccursIn(content[p], request[p].old_code))
        /\ Settled(p, "fuzzy") =>
              /\ NoMatch(p) <=> ~OccursIn(CollapseWs(content[p]),
                                          CollapseWs(request[p].old_code))
              /\ OccursIn(content[p], request[p].old_code) => Succeeded(p)
        /\ Settled(p, "smart") =>
              matchFound[p] = EarliestStrategy(content[p], request[p].old_code,
                                               request[p].new_code)

\* C2's case: a fuzzy call whose oldText occurs verbatim succeeded, and with
\* a text other than the first verbatim occurrence replaced
C2_Witness ==
    \E p \in Calls :
        /\ Settled(p, "fuzzy")
        /\ OccursIn(content[p], request[p].old_code)
        /\ Succeeded(p)
        /\ File # FirstOccurrenceReplaced(content[p], request[p].old_code,
                                          request[p].new_code)

\* C3: ExactSubstring succeeds iff oldText occurs verbatim, and then the
\* result is the text before the first occurrence, newText character for
\* character, and the text after that occurrence.
C3_ExactIsVerbatimReplace ==
    \A p \in Calls :
        Settled(p, "exact") =>
            /\ Succeeded(p) <=> OccursIn(content[p], request[p].old_code)
            /\ Succeeded(p) =>
                  File = FirstOccurrenceReplaced(content[p], request[p].old_code,
                                                 request[p].new_code)

\* C4: in fuzzy mode, whenever the normalized oldText occurs in the
\* normalized document, the file is the document with some span [start, end)
\* replaced by newText, and that span equals oldText up to the lengths of
\* its whitespace runs; the text before start and after end is kept.
C4_FuzzySpanIsTheMatch ==
    \A p \in Calls :
        (Settled(p, "fuzzy")
         /\ OccursIn(CollapseWs(content[p]), CollapseWs(request[p].old_code))) =>
            /\ Succeeded(p)
            /\ \E start \in 0..Len(content[p]) : \E end \in start..Len(content[p]) :
                  /\ SameUpToWhitespace(Substring(content[p], start, end),
                                        request[p].old_code)
                  /\ File = WithSpan(content[p], start, end, request[p].new_code)

(***************************************************************************)
(* C5..C7: the line, block and token strategies of smart mode              *)
(***************************************************************************)

\* The lines of text whose trimmed content is the trimmed old
TrimmedLineHits(text, old) ==
    {k \in 1..LineCount(text) : Trimmed(LineOf(text, k)) = Trimmed(old)}

\* text with line k replaced by its own indentation and the trimmed new
LineEdited(text, k, new) ==
    WithLines(text, k, 1, Indentation(LineOf(text, k)) \o Trimmed(new))

\* The call is a smart-mode smart_replace that has run smartMatch
Matched(p) ==
    /\ pc[p] \in {"sr_write", "responded"}
    /\ request[p].name = "smart_replace"
    /\ request[p].match_mode = "smart"
    /\ content[p] # Undefined

\* C5 as claimed: in smart mode, whenever old_code.trim() equals the
\* trimmed content of some line, the resulting text is the document with
\* such a line replaced by its indentation and new_code.trim(), whatever
\* whitespace old_code carries.
C5_TrimmedLineKeepsIndent ==
    \A p \in Calls :
        (Matched(p) /\ TrimmedLineHits(content[p], request[p].old_code) # {}) =>
            /\ matchFound[p].tag = "string"
            /\ \E k \in TrimmedLineHits(content[p], request[p].old_code) :
                  matchFound[p].text = LineEdited(content[p], k, request[p].new_code)

\* C5 as amended: in smart mode, when old_code does not occur verbatim in
\* the document and old_code.trim() equals the trimmed content of some line,
\* the text smartMatch returns is the document with the first such line
\* replaced by that line's indentation followed by new_code.trim(); a call
\* that succeeds has written that text.
C5_TrimmedLineWhenNotVerbatim ==
    \A p \in Calls :
        (/\ Matched(p)
         /\ ~OccursIn(content[p], request[p].old_code)
         /\ TrimmedLineHits(content[p], request[p].old_code) # {}) =>
            LET k == Min(TrimmedLineHits(content[p], request[p].old_code))
            IN  /\ matchFound[p].tag = "string"
                /\ matchFound[p].text = LineEdited(content[p], k, request[p].new_code)
                /\ Succeeded(p) => File = matchFound[p].text

\* C5's case: old_code carries whitespace of its own, does not occur
\* verbatim, matches an indented line after trimming, and the call wrote
\* the edited line with the line's indentation
C5_Witness ==
    \E p \in Calls :
        /\ Settled(p, "smart") /\ Succeeded(p)
        /\ request[p].old_code # Trimmed(request[p].old_code)
        /\ ~OccursIn(content[p], request[p].old_code)
        /\ \E k \in TrimmedLineHits(content[p], request[p].old_code) :
              /\ Indentation(LineOf(content[p], k)) # <<>>
              /\ Trimmed(request[p].new_code) # <<>>
              /\ File = LineEdited(content[p], k, request[p].new_code)

\* The first lines of the windows of text that match the lines of the
\* trimmed old, line by line after trimming
WindowHits(text, old) ==
    {k \in 1..(LineCount(text) - LineCount(Trimmed(old)) + 1) :
        \A j \in 1..LineCount(Trimmed(old)) :
            Trimmed(LineOf(text, k + j - 1)) = Trimmed(LineOf(Trimmed(old), j))}

\* text with the window at line k replaced by the lines of the trimmed new,
\* each trimmed and given the indentation of line k
WindowEdited(text, k, old, new) ==
    WithLines(text, k, LineCount(Trimmed(old)),
              Reindented(Trimmed(new), Indentation(LineOf(text, k)), 1))

\* C6 as claimed: in smart mode, when old_code is a multi-line block whose
\* lines match a window of document lines after trimming (also when the
\* block occurs verbatim), the resulting text has the window replaced by
\* new_code's lines, each trimmed and given the first matched line's
\* indentation.
C6_BlockUniformIndent ==
    \A p \in Calls :
        (/\ Matched(p)
         /\ LineCount(Trimmed(request[p].old_code)) >= 2
         /\ WindowHits(content[p], request[p].old_code) # {}) =>
            /\ matchFound[p].tag = "string"
            /\ \E k \in WindowHits(content[p], request[p].old_code) :
                  matchFound[p].text =
                      WindowEdited(content[p], k, request[p].old_code, request[p].new_code)

\* C6 as amended: the same, when the block does not occur verbatim in the
\* document: the text smartMatch returns is the document with the first
\* matching window replaced by new_code's lines, each trimmed and given the
\* first matched line's indentation; a call that succeeds has written it.
C6_BlockWhenNotVerbatim ==
    \A p \in Calls :
        (/\ Matched(p)
         /\ ~OccursIn(content[p], request[p].old_code)
         /\ LineCount(Trimmed(request[p].old_code)) >= 2
         /\ WindowHits(content[p], request[p].old_code) # {}) =>
            LET k == Min(WindowHits(content[p], request[p].old_code))
            IN  /\ matchFound[p].tag = "string"
                /\ matchFound[p].text =
                      WindowEdited(content[p], k, request[p].old_code, request[p].new_code)
                /\ Succeeded(p) => File = matchFound[p].text

\* C6's case: a block of two lines that does not occur verbatim matched a
\* window whose first line is indented; new_code has a line with an
\* indentation of its own, and the call wrote the uniformly indented lines
C6_Witness ==
    \E p \in Calls :
        /\ Settled(p, "smart") /\ Succeeded(p)
        /\ ~OccursIn(content[p], request[p].old_code)
        /\ LineCount(Trimmed(request[p].old_code)) >= 2
        /\ LineCount(Trimmed(request[p].new_code)) >= 2
        /\ Indentation(LineOf(Trimmed(request[p].new_code), 2)) # <<>>
        /\ \E k \in WindowHits(content[p], request[p].old_code) :
              /\ Indentation(LineOf(content[p], k)) # <<>>
              /\ File = WindowEdited(content[p], k, request[p].old_code, request[p].new_code)

\* The lines of text in which at least 80% of the tokens of old are present
OverlapHits(text, old) ==
    {k \in 1..LineCount(text) :
        TokensPresent(old, LineOf(text, k)) * 100 >= 80 * Len(Tokens(old))}

\* C7: in smart mode, when the exact, trimmed-line and block strategies find
\* nothing and oldText has more than 3 tokens, the first line in which at
\* least 80% of oldText's tokens are present is replaced, in the resulting
\* text, by its indentation followed by newText.trim(); with 3 or fewer
\* tokens the strategy never fires.
C7_PartialAtEightyPercent ==
    \A p \in Calls :
        (/\ Matched(p)
         /\ ~OccursIn(content[p], request[p].old_code)
         /\ TrimmedLineHits(content[p], request[p].old_code) = {}
         /\ WindowHits(content[p], request[p].old_code) = {}) =>
            IF /\ Len(Tokens(request[p].old_code)) > 3
               /\ OverlapHits(content[p], request[p].old_code) # {}
            THEN /\ matchFound[p].tag = "string"
                 /\ matchFound[p].text =
                       LineEdited(content[p],
                                  Min(OverlapHits(content[p], request[p].old_code)),
                                  request[p].new_code)
            ELSE matchFound[p] = JsFalse

(***************************************************************************)
(* C8..C10: the outcome of a call, its writes, and the handler's catch     *)
(***************************************************************************)

\* Some strategy the mode runs locates old in text
Located(mode, text, old, new) ==
    CASE mode = "exact" -> OccursIn(text, old)
      [] mode = "fuzzy" -> OccursIn(CollapseWs(text), CollapseWs(old))
      [] OTHER -> EarliestStrategy(text, old, new) # JsFalse

\* C8: smart_replace fails with the no-match error if and only if none of
\* the mode's strategies locates oldText; whenever one locates it the call
\* succeeds, also when the resulting text is the empty string.
C8_NoMatchIffNotLocated ==
    \A p \in Calls : \A mode \in Modes :
        Settled(p, mode) =>
            /\ NoMatch(p) <=> ~Located(mode, content[p], request[p].old_code,
                                       request[p].new_code)
            /\ ~NoMatch(p) => Succeeded(p)

\* C9: a call of smart_replace or apply_code_patch that returns a failure
\* has performed no write, and the file is as it was before the call; a
\* write happens only in a call that returns success, as the call's last
\* step, and it writes the complete new text.  (A write the file system
\* rejects leaves the file as it was; writes counts the writes performed.)
C9_WriteOnlyOnSuccess ==
    /\ \A p \in Calls :
          /\ pc[p] # "responded" => writes[p] = 0
          /\ (pc[p] = "responded" /\ response[p].kind = "error") =>
                (writes[p] = 0 /\ disk = disk0)
          /\ (Succeeded(p) /\ request[p].name \in {"smart_replace", "apply_code_patch"}) =>
                writes[p] = 1
          /\ writes[p] > 0 =>
                /\ Succeeded(p)
                /\ newContent[p] # Undefined
                /\ disk[safePath[p]] = newContent[p]
    /\ disk # disk0 => \E p \in Calls : writes[p] > 0

\* C9's case: an apply_code_patch call on an existing file returned a
\* failure after alternativePatch ran in the try and in the catch and a
\* write was attempted and failed
C9_Witness ==
    \E p \in Calls :
        /\ pc[p] = "responded"
        /\ request[p].name = "apply_code_patch"
        /\ response[p].kind = "error"
        /\ disk0[TargetPath] # NoFile
        /\ altRuns[p] = 2
        /\ writeAttempts[p] >= 1

\* C10: every error raised while executing a tool call is returned as the
\* payload {error: true, tool_name, message, hint}.
C10_ErrorPayloadShape ==
    \A p \in Calls :
        (pc[p] = "responded" /\ response[p].kind = "error") =>
            response[p].keys = {"error", "tool_name", "message", "hint"}

(***************************************************************************)
(* C11..C14: a missing file, and the two paths of apply_code_patch         *)
(***************************************************************************)

\* C11: when the target file does not exist, smart_replace and
\* apply_code_patch both return a not-found failure, and neither creates or
\* writes the file.
C11_AbsentFileNotFound ==
    \A p \in Calls :
        (/\ pc[p] = "responded"
         /\ request[p].name \in {"smart_replace", "apply_code_patch"}
         /\ safePath[p] = TargetPath
         /\ disk0[TargetPath] = NoFile) =>
            /\ response[p].kind = "error"
            /\ response[p].message = FileNotFound
            /\ disk[TargetPath] = NoFile

\* The call is an apply_code_patch whose diff-match-patch calls have run
Patched(p) ==
    /\ request[p].name = "apply_code_patch"
    /\ pc[p] \in {"cp_write", "cp_alt", "cp_catch", "cp_alt_write", "cp_catch_write",
                  "responded"}
    /\ safePath[p] # <<>>

\* How many hunks the structured apply reported as failed
HunkFailures(p) ==
    Cardinality({k \in DOMAIN dmpResult[p].results : ~dmpResult[p].results[k]})

RECURSIVE MarkedLines(_, _, _)
MarkedLines(patch, sign, k) ==
    IF k > LineCount(patch) THEN <<>>
    ELSE LET line == LineOf(patch, k)
             marked == /\ Len(line) >= 1 /\ line[1] = sign
                       /\ ~(Len(line) >= 3 /\ line[2] = sign /\ line[3] = sign)
             body == SubSeq(line, 2, Len(line))
             text == SubSeq(body, Len(Indentation(body)) + 1, Len(body))
         IN  (IF marked THEN <<text>> ELSE <<>>) \o MarkedLines(patch, sign, k + 1)

\* The texts of lines, one per line
RECURSIVE Lines(_)
Lines(lines) ==
    IF lines = <<>> THEN <<>>
    ELSE IF Len(lines) = 1 THEN lines[1]
    ELSE lines[1] \o <<"\n">> \o Lines(Tail(lines))

\* oldBlock and newBlock of a patch text
OldBlock(patch) == Lines(MarkedLines(patch, "-", 1))
NewBlock(patch) == Lines(MarkedLines(patch, "+", 1))

\* C13: once in the fallback, apply_code_patch succeeds if and only if
\* oldBlock and newBlock are both non-empty and oldBlock occurs verbatim in
\* the document; on success the first occurrence of oldBlock is replaced by
\* newBlock, all other text is unchanged, and the result reports the
\* fallback method.  (Calls whose write the file system rejected are left
\* out.)
C13_FallbackReplacesFirst ==
    \A p \in Calls :
        (/\ Patched(p) /\ pc[p] = "responded"
         /\ altRuns[p] >= 1
         /\ writeAttempts[p] = writes[p]) =>
            LET oldBlock == OldBlock(request[p].patch_content)
                newBlock == NewBlock(request[p].patch_content)
                applies == /\ oldBlock # <<>> /\ newBlock # <<>>
                           /\ OccursIn(content[p], oldBlock)
            IN  /\ Succeeded(p) <=> applies
                /\ Succeeded(p) =>
                      /\ response[p].method = "simple_replacement"
                      /\ disk[safePath[p]] =
                            FirstOccurrenceReplaced(content[p], oldBlock, newBlock)

\* C14: every successful apply_code_patch result carries a method field
\* with one of the two values that name the path that produced it, and a
\* hunks_applied count; every failed apply_code_patch ends in a "k of n
\* hunks failed" failure or a not-found failure.
C14_PatchOutcomes ==
    \A p \in Calls :
        (Patched(p) /\ pc[p] = "responded") =>
            IF response[p].kind = "result"
            THEN /\ response[p].success
                 /\ {"method", "hunks_applied"} \subseteq response[p].keys
                 /\ response[p].method \in {"diff_match_patch", "simple_replacement"}
                 /\ response[p].method = "simple_replacement" <=> altRuns[p] > 0
            ELSE response[p].message \in {HunksFailed, FileNotFound}

(***************************************************************************)
(* C15: two smart_replace calls in flight on the same file.  The handler   *)
(* is async and nothing serializes the calls.  fs.writeFile opens the file *)
(* with flag 'w', which truncates it, and then writes the text at offset   *)
(* 0 of its own file descriptor; with two calls in flight these two steps  *)
(* of the two writeFile calls interleave.                                  *)
(***************************************************************************)

\* The file's text after text is written at offset 0 over current
Overwrite(current, text) == text \o SubSeq(current, Len(text) + 1, Len(current))

\* fs.writeFile, first step: the open with flag 'w' truncates the file
SrOpen(p) ==
    /\ pc[p] = "sr_write"
    /\ writeAttempts' = [writeAttempts EXCEPT ![p] = @ + 1]
    /\ \E ok \in BOOLEAN :
          IF ok
          THEN /\ disk' = WriteFile(disk, safePath[p], <<>>)
               /\ pc' = [pc EXCEPT ![p] = "sr_opened"]
               /\ UNCHANGED response
          ELSE /\ Respond(p, ErrorPayload(request[p].name, WriteError))
               /\ UNCHANGED disk
    /\ UNCHANGED <<request, safePath, content, matchFound, newContent, dmpResult, caught,
                   writes, altRuns, disk0>>

\* fs.writeFile, second step: the write of the text, and smartReplace's
\* return
SrWriteData(p) ==
    /\ pc[p] = "sr_opened"
    /\ disk' = WriteFile(disk, safePath[p], Overwrite(disk[safePath[p]], newContent[p]))
    /\ writes' = [writes EXCEPT ![p] = @ + 1]
    /\ Respond(p, ReplaceResult)
    /\ UNCHANGED <<request, safePath, content, matchFound, newContent, dmpResult, caught,
                   writeAttempts, altRuns, disk0>>

NextConcurrent ==
    \E p \in Calls :
        \/ CallTool(p)
        \/ SrRead(p)
        \/ SrMatch(p)
        \/ SrOpen(p)
        \/ SrWriteData(p)

\* The texts and the edits of the two calls
ConcurrentDocs == { <<"a", "b">>, <<"a", "a", "b">>, <<"b", " ", "a">> }

ConcurrentRequests ==
    {[name |-> "smart_replace", file_path |-> TargetRaw, old_code |-> o, new_code |-> n,
      match_mode |-> "exact", patch_content |-> <<>>] :
        o \in { <<"a">>, <<"b">> }, n \in { <<>>, <<"c">>, <<"c", "c", "c">> }}

\* Two calls arrive together for an existing file
InitConcurrent ==
    /\ disk \in [DiskPaths -> ConcurrentDocs]
    /\ disk0 = disk
    /\ request \in [Calls -> ConcurrentRequests]
    /\ pc = [p \in Calls |-> "request"]
    /\ safePath = [p \in Calls |-> <<>>]
    /\ content = [p \in Calls |-> Undefined]
    /\ matchFound = [p \in Calls |-> JsFalse]
    /\ newContent = [p \in Calls |-> Undefined]
    /\ dmpResult = [p \in Calls |-> NoDmp]
    /\ caught = [p \in Calls |-> ""]
    /\ response = [p \in Calls |-> NoResponse]
    /\ writes = [p \in Calls |-> 0]
    /\ writeAttempts = [p \in Calls |-> 0]
    /\ altRuns = [p \in Calls |-> 0]

SpecConcurrent == InitConcurrent /\ [][NextConcurrent]_vars

\* The result the edit of call p intends for the text c
Intended(p, c) == FirstOccurrenceReplaced(c, request[p].old_code, request[p].new_code)

\* C15: for two direct edits issued concurrently against the same path with
\* initial content c, when both have returned the file is exactly one of
\* the two intended results A(c) or B(c), never a mixture of the two and
\* never a partially written text.
C15_OneOfTheTwoResults ==
    (/\ \A p \in Calls : pc[p] = "responded" /\ response[p].message # WriteError
     /\ \A p \in Calls : OccursIn(disk0[TargetPath], request[p].old_code)) =>
        \E p \in Calls : File = Intended(p, disk0[TargetPath])

(***************************************************************************)
(* C16: the order of the steps of a call, with a second call that arrives  *)
(* when the first has returned                                             *)
(***************************************************************************)

\* The second call is handled after the first has returned
InTurn(p) == p = 2 => pc[1] = "responded"

NextSequential ==
    \E p \in Calls :
        \/ InTurn(p) /\ CallTool(p)
        \/ InTurn(p) /\ SrRead(p)
        \/ InTurn(p) /\ SrMatch(p)
        \/ InTurn(p) /\ SrWrite(p)
        \/ InTurn(p) /\ CpRead(p)
        \/ InTurn(p) /\ CpWrite(p)
        \/ InTurn(p) /\ CpAlternative(p)
        \/ InTurn(p) /\ CpAlternativeWrite(p)

SequentialRequests == ConcurrentRequests \cup PatchRequests

\* Two calls, one after the other, for an existing file
InitSequential ==
    /\ disk \in [DiskPaths -> ConcurrentDocs]
    /\ disk0 = disk
    /\ request \in [Calls -> SequentialRequests]
    /\ pc = [p \in Calls |-> "request"]
    /\ safePath = [p \in Calls |-> <<>>]
    /\ content = [p \in Calls |-> Undefined]
    /\ matchFound = [p \in Calls |-> JsFalse]
    /\ newContent = [p \in Calls |-> Undefined]
    /\ dmpResult = [p \in Calls |-> NoDmp]
    /\ caught = [p \in Calls |-> ""]
    /\ response = [p \in Calls |-> NoResponse]
    /\ writes = [p \in Calls |-> 0]
    /\ writeAttempts = [p \in Calls |-> 0]
    /\ altRuns = [p \in Calls |-> 0]

SpecSequential == InitSequential /\ [][NextSequential]_vars

\* The texts a call with request r may compute from the text c it read
Computable(r, c) ==
    IF r.name = "smart_replace"
    THEN {ReplaceByMode(c, r.old_code, r.new_code, r.match_mode).newContent}
    ELSE {d.text : d \in DmpOutcomes(NormalizeEol(fixPatchFormat(r.patch_content)),
                                     NormalizeEol(c))}
         \cup {alternativePatch(r.patch_content, c).newContent}

KeepsOtherLines(text, result, k, n) ==
    LET headLen == BreakAt(text, k - 1)
        tail == SubSeq(text, BreakAt(text, k + n - 1), Len(text))
    IN  /\ Len(result) >= headLen + Len(tail)
        /\ SubSeq(result, 1, headLen) = SubSeq(text, 1, headLen)
        /\ SubSeq(result, Len(result) - Len(tail) + 1, Len(result)) = tail

\* C17: splitting a text into lines on "\n" and joining the lines with "\n"
\* gives the text back, also for the empty text and for texts that end in
\* line breaks; the split gives one piece per line; and a line-based
\* strategy of smart mode changes nothing outside the lines it rewrites (one
\* line, or as many lines as the trimmed old_code has).
C17_SplitJoinRoundTrip ==
    \A p \in Calls :
        content[p] # Undefined =>
            /\ Join(Split(content[p], "\n"), "\n") = content[p]
            /\ Len(Split(content[p], "\n")) = LineCount(content[p])
            /\ \A k \in 1..LineCount(content[p]) :
                  Split(content[p], "\n")[k] = LineOf(content[p], k)
            /\ (/\ Matched(p) /\ matchFound[p].tag = "string"
                /\ ~OccursIn(content[p], request[p].old_code)) =>
                  \E k \in 1..LineCount(content[p]) :
                      \E n \in {1, LineCount(Trimmed(request[p].old_code))} :
                          /\ k + n - 1 <= LineCount(content[p])
                          /\ KeepsOtherLines(content[p], matchFound[p].text, k, n)

\* C17's case: a text that ends in a line break had one of its lines
\* rewritten by a line-based strategy, and the call wrote the result, which
\* still ends in the line break
C17_Witness ==
    \E p \in Calls :
        /\ Settled(p, "smart") /\ Succeeded(p)
        /\ ~OccursIn(content[p], request[p].old_code)
        /\ LineCount(content[p]) >= 2
        /\ content[p][Len(content[p])] = "\n"
        /\ File # content[p]
        /\ File = matchFound[p].text
        /\ File[Len(File)] = "\n"

\* piece occurs exactly once in text
OccursOnce(text, piece) ==
    Cardinality({k \in 0..Len(text) : OccursAt(text, piece, k)}) = 1

\* C18: in exact mode, for a document in which oldText occurs exactly
\* once, and a newText that occurs exactly once in the edited document, where
\* it was inserted, the edit oldText -> newText followed by the edit
\* newText -> oldText restores the document.
C18_ReverseEditRestores ==
    \A p \in Calls :
        (/\ Settled(p, "exact") /\ Succeeded(p)
         /\ OccursOnce(content[p], request[p].old_code)
         /\ OccursOnce(File, request[p].new_code)
         /\ OccursAt(File, request[p].new_code,
                     FirstOffset(content[p], request[p].old_code))) =>
            LET back == ExactReplace(File, request[p].new_code, request[p].old_code)
            IN  /\ Truthy(back.matchFound)
                /\ back.newContent = content[p]

\* path is the sandbox directory or lies beneath it
InSandbox(path) ==
    \/ path = SANDBOX_DIR
    \/ /\ Len(path) > Len(SANDBOX_DIR) + 1
       /\ SubSeq(path, 1, Len(SANDBOX_DIR) + 1) = SANDBOX_DIR \o <<"/">>

\* C19: the path a file tool reads or writes is the sandbox directory or a
\* file beneath it; a raw path that resolves outside the sandbox directory,
\* also into a sibling directory whose name starts with the sandbox
\* directory's name, is rejected before any file access.
C19_AccessOnlyInSandbox ==
    /\ \A p \in Calls : safePath[p] # <<>> => InSandbox(safePath[p])
    /\ \A q \in DOMAIN disk : InSandbox(q)

\* s with its upper case letters in lower case
LowerCased(s) ==
    [k \in 1..Len(s) |-> CASE s[k] = "A" -> "a" [] s[k] = "B" -> "b" [] OTHER -> s[k]]

\* The lines of text that contain piece, respecting or ignoring case
ContainingLines(text, piece, case_sensitive) ==
    {k \in 1..LineCount(text) :
        IF case_sensitive THEN OccursIn(LineOf(text, k), piece)
        ELSE OccursIn(LowerCased(LineOf(text, k)), LowerCased(piece))}

\* C20: search_in_file returns one match entry for every line of the file
\* that contains search_text (respecting case_sensitive), in ascending order
\* with 1-based line numbers, and total_matches is the number of such lines.
C20_EveryContainingLine ==
    \A p \in Calls :
        (/\ pc[p] = "responded" /\ request[p].name = "search_in_file"
         /\ content[p] # Undefined) =>
            LET hits == ContainingLines(content[p], request[p].search_text,
                                        request[p].case_sensitive)
                matches == response[p].matches
            IN  /\ Succeeded(p)
                /\ response[p].total_matches = Cardinality(hits)
                /\ Len(matches) = Cardinality(hits)
                /\ \A i \in 1..Len(matches) :
                      /\ matches[i].line_number \in hits
                      /\ Cardinality({k \in hits : k < matches[i].line_number}) = i - 1
                      /\ matches[i].content = LineOf(content[p], matches[i].line_number)

(***************************************************************************)
(* replace_text and delete_lines                                           *)
(***************************************************************************)

\* The characters of the class [.*+?^${}()|[\]\\]
RegExpSpecials == {".", "*", "+", "?", "^", "$", "{", "}", "(", ")", "|", "[", "]", "\\"}

\* find_text.replace(/[.*+?^${}()|[\]\\]/g, '\\$&'): a backslash before
\* every special character
RECURSIVE EscapeRegExp(_)
EscapeRegExp(s) ==
    IF s = <<>> THEN <<>>
    ELSE (IF Head(s) \in RegExpSpecials THEN <<"\\", Head(s)>> ELSE <<Head(s)>>)
         \o EscapeRegExp(Tail(s))

\* new RegExp(source, 'g'), as the atoms it matches in turn: a backslash
\* makes the next character literal, a dot matches any character but a line
\* end, and a character that is not special matches itself (the escaped
\* source holds no other unescaped special character)
RECURSIVE PatternAtoms(_)
PatternAtoms(source) ==
    IF source = <<>> THEN <<>>
    ELSE IF Head(source) = "\\" /\ Len(source) >= 2
         THEN <<[any |-> FALSE, char |-> source[2]]>>
              \o PatternAtoms(SubSeq(source, 3, Len(source)))
    ELSE IF Head(source) = "."
         THEN <<[any |-> TRUE, char |-> "."]>> \o PatternAtoms(Tail(source))
    ELSE <<[any |-> FALSE, char |-> Head(source)]>> \o PatternAtoms(Tail(source))

\* The atoms match str at 0-based offset k
AtomsMatchAt(atoms, str, k) ==
    /\ k + Len(atoms) <= Len(str)
    /\ \A j \in 1..Len(atoms) :
          IF atoms[j].any THEN str[k + j] \notin {"\n", "\r"}
          ELSE str[k + j] = atoms[j].char

\* (str.match(regex) || []).length for a global regex: the matches found
\* from lastIndex on, each search resuming behind the last match (one
\* further when the match was empty)
RECURSIVE GlobalMatchCount(_, _, _)
GlobalMatchCount(atoms, str, lastIndex) ==
    LET at == {k \in lastIndex..Len(str) : AtomsMatchAt(atoms, str, k)} IN
    IF at = {} THEN 0
    ELSE 1 + GlobalMatchCount(atoms, str,
                              IF atoms = <<>> THEN Min(at) + 1 ELSE Min(at) + Len(atoms))

\* str.replaceAll(searchValue, replaceValue) with both arguments strings:
\* the occurrences found by indexOf from position on, each search resuming
\* max(1, searchValue.length) further, each replaced by the expansion of
\* GetSubstitution; endOfLastMatch is where the text kept resumes
RECURSIVE ReplaceAllFrom(_, _, _, _, _)
ReplaceAllFrom(str, searchValue, replaceValue, position, endOfLastMatch) ==
    LET at == {k \in Occurrences(str, searchValue) : k >= position} IN
    IF at = {} THEN SubstringFrom(str, endOfLastMatch)
    ELSE Substring(str, endOfLastMatch, Min(at))
         \o GetSubstitution(searchValue, str, Min(at), replaceValue)
         \o ReplaceAllFrom(str, searchValue, replaceValue,
                           Min(at) + (IF searchValue = <<>> THEN 1 ELSE Len(searchValue)),
                           Min(at) + Len(searchValue))

StringReplaceAll(str, searchValue, replaceValue) ==
    ReplaceAllFrom(str, searchValue, replaceValue, 0, 0)

\* hay.lastIndexOf(needle)
LastIndexOf(hay, needle) ==
    IF Occurrences(hay, needle) = {} THEN -1
    ELSE CHOOSE k \in Occurrences(hay, needle) : \A j \in Occurrences(hay, needle) : j <= k

\* const occurrences of replaceText
CountOccurrences(content_, find_text) ==
    GlobalMatchCount(PatternAtoms(EscapeRegExp(find_text)), content_, 0)

\* newContent of replaceText by occurrence
ReplaceTextNewContent(content_, find_text, replace_text, occurrence) ==
    IF occurrence = "all" THEN StringReplaceAll(content_, find_text, replace_text)
    ELSE IF occurrence = "first" THEN StringReplace(content_, find_text, replace_text)
    ELSE LET lastIndex == LastIndexOf(content_, find_text)
         IN  Substring(content_, 0, lastIndex) \o replace_text
             \o SubstringFrom(content_, lastIndex + Len(find_text))

\* The result of replaceText
ReplaceTextResult(replacements) ==
    [kind |-> "result", success |-> TRUE,
     keys |-> {"success", "file_path", "replacements_made", "message"},
     tool_name |-> "", message |-> "Replaced occurrence(s) of text.",
     hint |-> "", method |-> "", hunks_applied |-> -1, replacements_made |-> replacements]

\* replaceText: await fs.readFile(safePath, 'utf8'), the count of the
\* occurrences with its throw, and newContent
RtRead(p) ==
    /\ pc[p] = "rt_read"
    /\ IF ReadFile(disk, safePath[p]) = NoFile
       THEN /\ Respond(p, ErrorPayload(request[p].name, FileNotFound))
            /\ UNCHANGED <<content, newContent>>
       ELSE /\ content' = [content EXCEPT ![p] = ReadFile(disk, safePath[p])]
            /\ IF CountOccurrences(ReadFile(disk, safePath[p]), request[p].find_text) = 0
               THEN /\ Respond(p, ErrorPayload(request[p].name, TextNotFound))
                    /\ UNCHANGED newContent
               ELSE /\ newContent' = [newContent EXCEPT ![p] =
                           ReplaceTextNewContent(ReadFile(disk, safePath[p]),
                                                 request[p].find_text,
                                                 request[p].replace_text,
                                                 request[p].occurrence)]
                    /\ pc' = [pc EXCEPT ![p] = "rt_write"]
                    /\ UNCHANGED response
    /\ UNCHANGED <<disk, request, safePath, matchFound, dmpResult, caught,
                   writes, writeAttempts, altRuns, disk0>>

\* replaceText: await fs.writeFile(safePath, newContent, 'utf-8'), which
\* completes or throws, and the return
RtWrite(p) ==
    /\ pc[p] = "rt_write"
    /\ writeAttempts' = [writeAttempts EXCEPT ![p] = @ + 1]
    /\ \E ok \in BOOLEAN :
          IF ok
          THEN /\ disk' = WriteFile(disk, safePath[p], newContent[p])
               /\ writes' = [writes EXCEPT ![p] = @ + 1]
               /\ Respond(p, ReplaceTextResult(
                                IF request[p].occurrence = "all"
                                THEN CountOccurrences(content[p], request[p].find_text)
                                ELSE 1))
          ELSE /\ Respond(p, ErrorPayload(request[p].name, WriteError))
               /\ UNCHANGED <<disk, writes>>
    /\ UNCHANGED <<request, safePath, content, matchFound, newContent, dmpResult, caught,
                   altRuns, disk0>>

\* A range check that lets the range end behind the last line
RangeRejectedLax(start_line, end_line, length) ==
    start_line < 1 \/ end_line > length + 1 \/ start_line > end_line

\* if (start_line < 1 || end_line > lines.length || start_line > end_line)
RangeRejected(start_line, end_line, length) ==
    start_line < 1 \/ end_line > length \/ start_line > end_line

\* The result of deleteLines
DeleteLinesResult(deletedCount) ==
    [kind |-> "result", success |-> TRUE,
     keys |-> {"success", "file_path", "lines_deleted", "message"},
     tool_name |-> "", message |-> "Deleted lines.",
     hint |-> "", method |-> "", hunks_applied |-> -1, lines_deleted |-> deletedCount]

\* deleteLines: await fs.readFile(safePath, 'utf8'), the split, the range
\* check with its throw, and the splice
DlRead(p) ==
    /\ pc[p] = "dl_read"
    /\ IF ReadFile(disk, safePath[p]) = NoFile
       THEN /\ Respond(p, ErrorPayload(request[p].name, FileNotFound))
            /\ UNCHANGED <<content, newContent>>
       ELSE LET lines == Split(ReadFile(disk, safePath[p]), "\n")
                start_line == request[p].start_line
                end_line == request[p].end_line
            IN  /\ content' = [content EXCEPT ![p] = ReadFile(disk, safePath[p])]
                /\ IF RangeRejected(start_line, end_line, Len(lines))
                   THEN /\ Respond(p, ErrorPayload(request[p].name, InvalidLineRange))
                        /\ UNCHANGED newContent
                   ELSE /\ newContent' = [newContent EXCEPT ![p] =
                               Join(Splice(lines, start_line - 1,
                                           end_line - start_line + 1, <<>>), "\n")]
                        /\ pc' = [pc EXCEPT ![p] = "dl_write"]
                        /\ UNCHANGED response
    /\ UNCHANGED <<disk, request, safePath, matchFound, dmpResult, caught,
                   writes, writeAttempts, altRuns, disk0>>

\* deleteLines: await fs.writeFile(safePath, lines.join('\n'), 'utf-8'),
\* which completes or throws, and the return
DlWrite(p) ==
    /\ pc[p] = "dl_write"
    /\ writeAttempts' = [writeAttempts EXCEPT ![p] = @ + 1]
    /\ \E ok \in BOOLEAN :
          IF ok
          THEN /\ disk' = WriteFile(disk, safePath[p], newContent[p])
               /\ writes' = [writes EXCEPT ![p] = @ + 1]
               /\ Respond(p, DeleteLinesResult(request[p].end_line - request[p].start_line + 1))
          ELSE /\ Respond(p, ErrorPayload(request[p].name, WriteError))
               /\ UNCHANGED <<disk, writes>>
    /\ UNCHANGED <<request, safePath, content, matchFound, newContent, dmpResult, caught,
                   altRuns, disk0>>

\* The steps of a replace_text or delete_lines call
NextEdits ==
    \E p \in Calls :
        \/ CallTool(p)
        \/ RtRead(p)
        \/ RtWrite(p)
        \/ DlRead(p)
        \/ DlWrite(p)

\* The file texts, find_text and replace_text of the replace_text calls
EditDocs ==
    { <<>>, <<"a">>, <<"a", "a">>, <<"a", "a", "a">>, <<"a", "b", "a">>,
      <<"a", ".", "a">>, <<"b", "a", "\n", "a", "b">>, <<"$", "a", "$">>,
      <<"a", "\n", "b", "\n", "c">>, <<"a", "\n">>, <<"\n", "\n">> }

EditFinds == { <<>>, <<"a">>, <<"a", "a">>, <<".">>, <<"$">>, <<"a", "\n">>, <<"c">> }

EditReplacements == { <<>>, <<"b">>, <<"a", "a">>, <<"$", "&">>, <<"$", "$">> }

\* occurrence: the values of the tool's schema
OccurrenceValues == {"first", "last", "all"}

ReplaceTextRequests ==
    {[name |-> "replace_text", file_path |-> TargetRaw, find_text |-> f,
      replace_text |-> r, occurrence |-> o] :
        f \in EditFinds, r \in EditReplacements, o \in OccurrenceValues}

\* The largest line number of the delete_lines calls
MaxLineNumber == 4

DeleteLinesRequests ==
    {[name |-> "delete_lines", file_path |-> TargetRaw, start_line |-> s, end_line |-> e] :
        s \in 0..MaxLineNumber, e \in 0..MaxLineNumber}

EditRequests == ReplaceTextRequests \cup DeleteLinesRequests

\* One replace_text or delete_lines call arrives; the file exists with some
\* text, or does not exist
InitEdits ==
    /\ disk \in [DiskPaths -> EditDocs \cup {NoFile}]
    /\ disk0 = disk
    /\ request \in {[p \in Calls |-> IF p = 1 THEN r ELSE NoRequest] : r \in EditRequests}
    /\ pc = [p \in Calls |-> IF p = 1 THEN "request" ELSE "idle"]
    /\ safePath = [p \in Calls |-> <<>>]
    /\ content = [p \in Calls |-> Undefined]
    /\ matchFound = [p \in Calls |-> JsFalse]
    /\ newContent = [p \in Calls |-> Undefined]
    /\ dmpResult = [p \in Calls |-> NoDmp]
    /\ caught = [p \in Calls |-> ""]
    /\ response = [p \in Calls |-> NoResponse]
    /\ writes = [p \in Calls |-> 0]
    /\ writeAttempts = [p \in Calls |-> 0]
    /\ altRuns = [p \in Calls |-> 0]

SpecEdits == InitEdits /\ [][NextEdits]_vars

(***************************************************************************)
(* C21..C22: replace_text and delete_lines                                 *)
(***************************************************************************)

\* The offset of the last occurrence
LastOffset(text, piece) ==
    CHOOSE k \in 0..Len(text) :
        OccursAt(text, piece, k) /\ \A j \in (k + 1)..Len(text) : ~OccursAt(text, piece, j)

\* text with every occurrence of piece, taken from the left without
\* overlap, replaced by new character for character (the empty piece occurs
\* before every character and at the end)
RECURSIVE EveryOccurrenceReplaced(_, _, _)
EveryOccurrenceReplaced(text, piece, new) ==
    IF ~OccursIn(text, piece) THEN text
    ELSE IF piece = <<>>
         THEN new \o (IF text = <<>> THEN <<>>
                      ELSE <<Head(text)>> \o EveryOccurrenceReplaced(Tail(text), piece, new))
    ELSE SubSeq(text, 1, FirstOffset(text, piece)) \o new
         \o EveryOccurrenceReplaced(
                SubSeq(text, FirstOffset(text, piece) + Len(piece) + 1, Len(text)), piece, new)

\* The number of those occurrences
RECURSIVE OccurrenceCount(_, _)
OccurrenceCount(text, piece) ==
    IF ~OccursIn(text, piece) THEN 0
    ELSE IF piece = <<>> THEN Len(text) + 1
    ELSE 1 + OccurrenceCount(
                SubSeq(text, FirstOffset(text, piece) + Len(piece) + 1, Len(text)), piece)

\* A call of the given tool has returned, after reading the file, and not
\* because the file system failed the write
Returned(p, tool) ==
    /\ pc[p] = "responded"
    /\ request[p].name = tool
    /\ content[p] # Undefined
    /\ response[p].message # WriteError

\* C21: replace_text with occurrence first / last / all replaces exactly the
\* first / the last / every non-overlapping occurrence of find_text by
\* replace_text character for character and leaves all other text
\* unchanged; replacements_made is the number of occurrences replaced; when
\* find_text does not occur the call fails and the file is not written.
C21_ReplacesTheNamedOccurrences ==
    \A p \in Calls :
        Returned(p, "replace_text") =>
            LET text == content[p]
                find == request[p].find_text
                new == request[p].replace_text
                which == request[p].occurrence
            IN  /\ Succeeded(p) =>
                      /\ OccursIn(text, find)
                      /\ File = (CASE which = "first" -> FirstOccurrenceReplaced(text, find, new)
                                   [] which = "last" ->
                                        WithSpan(text, LastOffset(text, find),
                                                 LastOffset(text, find) + Len(find), new)
                                   [] OTHER -> EveryOccurrenceReplaced(text, find, new))
                      /\ response[p].replacements_made =
                            (IF which = "all" THEN OccurrenceCount(text, find) ELSE 1)
                /\ ~OccursIn(text, find) =>
                      /\ ~Succeeded(p)
                      /\ writeAttempts[p] = 0
                      /\ File = disk0[TargetPath]

\* Lines from..to of text, in order (none when to < from)
SelectedLines(text, from, to) ==
    [i \in 1..(to - from + 1) |-> LineOf(text, from + i - 1)]

\* text without its lines from..to
WithoutLines(text, from, to) ==
    Lines(SelectedLines(text, 1, from - 1) \o SelectedLines(text, to + 1, LineCount(text)))

\* C22: delete_lines on a file of n lines succeeds if and only if
\* 1 <= start_line <= end_line <= n; on success the new file is lines
\* 1..start_line-1 followed by lines end_line+1..n in the original order and
\* lines_deleted is end_line - start_line + 1; otherwise the call fails with
\* the invalid-range error and the file is not written.  (Calls whose write
\* the file system rejected are left out.)
C22_DeletesTheInclusiveRange ==
    \A p \in Calls :
        Returned(p, "delete_lines") =>
            LET text == content[p]
                n == LineCount(text)
                from == request[p].start_line
                to == request[p].end_line
                valid == 1 <= from /\ from <= to /\ to <= n
            IN  /\ Succeeded(p) <=> valid
                /\ Succeeded(p) =>
                      /\ File = WithoutLines(text, from, to)
                      /\ response[p].lines_deleted = to - from + 1
                      /\ writes[p] = 1
                /\ ~valid =>
                      /\ response[p].kind = "error"
                      /\ response[p].message = InvalidLineRange
                      /\ writeAttempts[p] = 0
                      /\ File = disk0[TargetPath]

\* C22's case: the middle line of a file of three lines was deleted and
\* the first and the last line are what the file holds
C22_Witness ==
    \E p \in Calls :
        /\ Returned(p, "delete_lines")
        /\ Succeeded(p)
        /\ LineCount(content[p]) = 3
        /\ request[p].start_line = 2
        /\ request[p].end_line = 2
        /\ File = <<"a", "\n", "c">>

(***************************************************************************)
(* apply_code_patch on patches that need repair                            *)
(***************************************************************************)

\* The steps of an apply_code_patch call
NextPatches ==
    \E p \in Calls :
        \/ CallTool(p)
        \/ CpRead(p)
        \/ CpWrite(p)
        \/ CpAlternative(p)
        \/ CpAlternativeWrite(p)

\* The file texts of these calls
PatchDocs == { <<>>, <<"a">>, <<"-", "-", "x">>, <<"a", "\n", "b">>, <<"b", " ", "a">> }

\* patch_content: headers with and without counts, lines with and without
\* a marker, file headers, and marked lines whose text starts with the marker
RepairPatches ==
    { <<"-", "a", "\n", "+", "b">>,
      <<"@", "@", " ", "-", "1", " ", "+", "2", " ", "@", "@", "\n", "-", "a", "\n", "+", "b">>,
      <<"@", "@", " ", "-", "1", ",", "1", " ", "+", "1", ",", "1", " ", "@", "@", "\n",
        "-", "a", "\n", "+", "b">>,
      <<"@", "@", " ", "-", "1", "2", " ", "+", "3", " ", "@", "@", " ", "f", "\n",
        "x", " ", "-", " ", "a", "\n", "y", " ", "+", " ", "b", "\n", "z", "\n", "\n", " ", "c">>,
      <<"x", "\n", "@", "@", " ", "-", "1", " ", "+", "1", " ", "@", "@", "\n",
        "+", "s", " ", "@", "@", " ", "-", "1", " ", "+", "2", " ", "@", "@">>,
      <<"-", "-", "-", " ", "a", "\n", "+", "+", "+", " ", "b", "\n",
        "@", "@", " ", "-", "1", " ", "+", "1", " ", "@", "@", "\n",
        "-", "-", "-", "x", "\n", "+", "+", "+", "y">>,
      <<"-", "\n", "-", "a", "\n", "+", "b">>,
      <<"-", " ", "b", "\n", "-", "\t", "a", "\n", " ", "c", "\n", "+", "a", "\n", "+", " ", "b">>,
      <<"@", "@", " ", "-", "1", " ", "+", "1", " ", "@", "@", "\n",
        "a", "+", " ", "b", "-", " ", "c", "\n", "-", "a", "\n", "+", "b">>,
      <<"@", "@", " ", "-", "1", " ", "+", "1", " ", "@", "@", "\n",
        "@", "@", "x", "\n", "q", "+", " ", "r", "\n", "\r">> }

RepairRequests ==
    {[name |-> "apply_code_patch", file_path |-> TargetRaw, old_code |-> <<>>,
      new_code |-> <<>>, match_mode |-> "", patch_content |-> t] : t \in RepairPatches}

\* One apply_code_patch call arrives; the file exists with some text, or
\* does not exist
InitPatches ==
    /\ disk \in [DiskPaths -> PatchDocs \cup {NoFile}]
    /\ disk0 = disk
    /\ request \in {[p \in Calls |-> IF p = 1 THEN r ELSE NoRequest] : r \in RepairRequests}
    /\ pc = [p \in Calls |-> IF p = 1 THEN "request" ELSE "idle"]
    /\ safePath = [p \in Calls |-> <<>>]
    /\ content = [p \in Calls |-> Undefined]
    /\ matchFound = [p \in Calls |-> JsFalse]
    /\ newContent = [p \in Calls |-> Undefined]
    /\ dmpResult = [p \in Calls |-> NoDmp]
    /\ caught = [p \in Calls |-> ""]
    /\ response = [p \in Calls |-> NoResponse]
    /\ writes = [p \in Calls |-> 0]
    /\ writeAttempts = [p \in Calls |-> 0]
    /\ altRuns = [p \in Calls |-> 0]

SpecPatches == InitPatches /\ [][NextPatches]_vars

(***************************************************************************)
(* C23..C26: the repair of the patch text and the fallback                 *)
(***************************************************************************)

\* line begins with a hunk header without counts, "@@ -X +Y @@", X having
\* x digits and Y having y digits
BareHeader(line, x, y) ==
    /\ x >= 1
    /\ y >= 1
    /\ Len(line) >= x + y + 9
    /\ SubSeq(line, 1, 4) = <<"@", "@", " ", "-">>
    /\ \A i \in 5..(4 + x) : line[i] \in Digits
    /\ SubSeq(line, 5 + x, 6 + x) = <<" ", "+">>
    /\ \A i \in (7 + x)..(6 + x + y) : line[i] \in Digits
    /\ SubSeq(line, 7 + x + y, 9 + x + y) = <<" ", "@", "@">>

IsBareHeader(line) == \E x, y \in 1..Len(line) : BareHeader(line, x, y)

\* The header line with the counts put in: "@@ -X,1 +X,1 @@" and what
\* followed the header on its line
WithCounts(line) ==
    LET x == CHOOSE x \in 1..Len(line) : \E y \in 1..Len(line) : BareHeader(line, x, y)
        y == CHOOSE y \in 1..Len(line) : BareHeader(line, x, y)
    IN  <<"@", "@", " ", "-">> \o SubSeq(line, 5, 4 + x) \o <<",", "1", " ", "+">>
        \o SubSeq(line, 5, 4 + x) \o <<",", "1", " ", "@", "@">>
        \o SubSeq(line, x + y + 10, Len(line))

\* An apply_code_patch call has read the file and repaired the patch
Repaired(p) ==
    /\ request[p].name = "apply_code_patch"
    /\ content[p] # Undefined

\* C23: header repair rewrites every header of the form "@@ -X +Y @@" (no
\* counts) to "@@ -X,1 +X,1 @@", with the old-side position X on both
\* sides and Y dropped; headers that carry counts and all text that is not
\* a header are left unchanged by this pass.
C23_OnlyBareHeadersRewritten ==
    \A p \in Calls :
        Repaired(p) =>
            LET patch == request[p].patch_content
                fixed == RepairHeaders(patch, 0)
            IN  /\ LineCount(fixed) = LineCount(patch)
                /\ \A k \in 1..LineCount(patch) :
                      LineOf(fixed, k) = IF IsBareHeader(LineOf(patch, k))
                                         THEN WithCounts(LineOf(patch, k))
                                         ELSE LineOf(patch, k)

\* line is a hunk header line / begins with one of the three markers
IsHeaderLine(line) == Len(line) >= 2 /\ line[1] = "@" /\ line[2] = "@"
HasMarker(line) == Len(line) >= 1 /\ line[1] \in {" ", "-", "+"}

\* Line k of text is inside a hunk: a header line stands above it
InHunk(text, k) == \E j \in 1..(k - 1) : IsHeaderLine(LineOf(text, j))

\* What follows the first occurrence of piece in line
AfterFirst(line, piece) ==
    SubSeq(line, FirstOffset(line, piece) + Len(piece) + 1, Len(line))

\* The line reclassified by the text it contains
Reclassified(line) ==
    IF OccursIn(line, <<"-", " ">>) THEN <<"-">> \o AfterFirst(line, <<"-", " ">>)
    ELSE IF OccursIn(line, <<"+", " ">>) THEN <<"+">> \o AfterFirst(line, <<"+", " ">>)
    ELSE <<" ">> \o line

\* C24: prefix repair, on the text the header repair left: every non-empty
\* line inside a hunk that starts with none of space, "-", "+" (and is no
\* header) becomes a removal, "-" and what followed its first "- ", if it
\* contains "- ", else an addition likewise if it contains "+ ", else the
\* line with one space put before it; afterwards every non-empty line
\* inside a hunk starts with space, "-" or "+" or is a header; lines that
\* had a marker are unchanged.
C24_PrefixRepair ==
    \A p \in Calls :
        Repaired(p) =>
            LET before == RepairHeaders(request[p].patch_content, 0)
                after == fixPatchFormat(request[p].patch_content)
            IN  /\ LineCount(after) = LineCount(before)
                /\ \A k \in 1..LineCount(before) :
                      LET line == LineOf(before, k)
                          fixed == LineOf(after, k)
                      IN  /\ (/\ InHunk(before, k) /\ line # <<>>
                              /\ ~IsHeaderLine(line) /\ ~HasMarker(line)) =>
                                fixed = Reclassified(line)
                          /\ HasMarker(line) => fixed = line
                          /\ (InHunk(after, k) /\ fixed # <<>>) =>
                                HasMarker(fixed) \/ IsHeaderLine(fixed)

\* C24's case: in one hunk a line with "- ", a line with "+ " and a line
\* with neither were given the prefixes "-", "+" and " "
C24_Witness ==
    \E p \in Calls :
        /\ Repaired(p)
        /\ LineOf(request[p].patch_content, 2) = <<"x", " ", "-", " ", "a">>
        /\ LineOf(fixPatchFormat(request[p].patch_content), 2) = <<"-", "a">>
        /\ LineOf(fixPatchFormat(request[p].patch_content), 3) = <<"+", "b">>
        /\ LineOf(fixPatchFormat(request[p].patch_content), 4) = <<" ", "z">>
        /\ dmpResult[p] # NoDmp

\* The lines of the patch text that begin with the marker sign and are not
\* file header lines (a line of three signs and a space before the first
\* hunk header), each without the marker and its leading whitespace
RECURSIVE ChangeLines(_, _, _)
ChangeLines(patch, sign, k) ==
    IF k > LineCount(patch) THEN <<>>
    ELSE LET line == LineOf(patch, k)
             fileHeader == /\ ~InHunk(patch, k)
                           /\ Len(line) >= 4
                           /\ SubSeq(line, 1, 4) = <<sign, sign, sign, " ">>
             body == SubSeq(line, 2, Len(line))
         IN  (IF Len(line) >= 1 /\ line[1] = sign /\ ~fileHeader
              THEN <<SubSeq(body, Len(Indentation(body)) + 1, Len(body))>>
              ELSE <<>>)
             \o ChangeLines(patch, sign, k + 1)

\* C25: the fallback scans the original, unrepaired patch text and builds
\* oldBlock from all removal lines and newBlock from all addition lines,
\* each in patch order, marker stripped and leading whitespace trimmed,
\* joined by newlines; no removal or addition line is left out, whatever
\* follows its marker (also text that begins with "--" or "++"); context
\* and header lines contribute nothing.
C25_BlocksHoldEveryChangeLine ==
    \A p \in Calls :
        (request[p].name = "apply_code_patch" /\ altRuns[p] > 0) =>
            LET patch == request[p].patch_content
            IN  /\ AltCollect(Split(patch, "\n"), "-", <<>>) = Lines(ChangeLines(patch, "-", 1))
                /\ AltCollect(Split(patch, "\n"), "+", <<>>) = Lines(ChangeLines(patch, "+", 1))

\* C26: within one apply_code_patch call the fallback is run at most once
\* and at most one write of the file is attempted, on every path through
\* the call: structured success, hunk failure with fallback success, hunk
\* failure with fallback failure, parse exception, and write error.
C26_OneFallbackOneWrite ==
    \A p \in Calls :
        request[p].name = "apply_code_patch" =>
            /\ altRuns[p] <= 1
            /\ writeAttempts[p] <= 1

(***************************************************************************)
(* C27..C28: the lines around a match, and the empty old_code              *)
(***************************************************************************)

\* The lines of text above line k and below line k + n - 1 are the first
\* and the last lines of result, unchanged and in the same order
SameLinesAround(text, result, k, n) ==
    /\ \A j \in 1..(k - 1) : LineOf(result, j) = LineOf(text, j)
    /\ \A j \in 0..(LineCount(text) - (k + n)) :
          LineOf(result, LineCount(result) - j) = LineOf(text, LineCount(text) - j)

\* How many lines the line-based strategy that finds old in text replaces:
\* one for the single-line strategies, the lines of the trimmed old for the
\* block strategy
LinesReplaced(text, old) ==
    IF TrimmedLineHits(text, old) = {} /\ WindowHits(text, old) # {}
    THEN LineCount(Trimmed(old))
    ELSE 1

\* C27: when a line-based strategy of smart mode (trimmed line, block,
\* token overlap) returns a text, all lines above the matched line or
\* window and all lines below it are in the result unchanged and in the
\* same order; for the single-line strategies the number of lines grows by
\* the line breaks inside the trimmed new_code only, and for the block
\* strategy it changes by the lines of the trimmed new_code minus the lines
\* of the trimmed old_code.
C27_LinesAroundTheMatchKept ==
    \A p \in Calls :
        (/\ Matched(p) /\ matchFound[p].tag = "string"
         /\ ~OccursIn(content[p], request[p].old_code)) =>
            LET text == content[p]
                result == matchFound[p].text
                n == LinesReplaced(text, request[p].old_code)
            IN  /\ LineCount(result) =
                      LineCount(text) - n + LineCount(Trimmed(request[p].new_code))
                /\ \E k \in 1..(LineCount(text) - n + 1) :
                      SameLinesAround(text, result, k, n)
                /\ Succeeded(p) => File = result

\* C27's case: a single line with a line above or below it, found by a
\* line-based strategy, was replaced by a new_code of two lines; the file has
\* one line more and the other lines are as before
C27_Witness ==
    \E p \in Calls :
        /\ Settled(p, "smart") /\ Succeeded(p)
        /\ ~OccursIn(content[p], request[p].old_code)
        /\ LinesReplaced(content[p], request[p].old_code) = 1
        /\ LineCount(content[p]) >= 2
        /\ LineCount(Trimmed(request[p].new_code)) = 2
        /\ LineCount(File) = LineCount(content[p]) + 1
        /\ \E k \in 1..LineCount(content[p]) : SameLinesAround(content[p], File, k, 1)

\* C28: when old_code is the empty text, smart_replace in every match mode
\* (exact, fuzzy, smart) succeeds for any existing file and writes new_code
\* followed by the entire unchanged original content; it never reports the
\* no-match error.  (Calls whose write the file system rejected are left
\* out.)
C28_EmptyOldCodePrepends ==
    \A p \in Calls :
        \A mode \in Modes :
            (Settled(p, mode) /\ request[p].old_code = <<>>) =>
                /\ ~NoMatch(p)
                /\ Succeeded(p)
                /\ File = request[p].new_code \o content[p]

====
